---------------------------- MODULE Spec2Model ----------------------------
(***************************************************************************)
(* A model of abagames/pic-pixeller: the PicPixeller converter class       *)
(* (resize, edge preservation, palette generation, quantization and        *)
(* Floyd-Steinberg dithering) and the parts of the React component that    *)
(* drive it.                                                               *)
(*                                                                         *)
(* JavaScript numbers are modelled exactly.  The values the dithering pass *)
(* computes are fractions over powers of 160 (an error weight is k/16, the *)
(* strength is a number of tenths) whose numerators outgrow 32 bits, so    *)
(* they are kept as arbitrary-precision integers.  Math.sqrt is never      *)
(* evaluated: a distance is represented by its square, which orders        *)
(* candidates the same way.  Rounding of IEEE doubles is not modelled.     *)
(***************************************************************************)
EXTENDS Integers, Sequences, FiniteSets, TLC

(***************************************************************************)
(* Arbitrary-precision integers: a sequence of limbs, least significant    *)
(* first.  Every limb but the last is in 0..Base-1; the last is non-zero,  *)
(* of magnitude below Base, and carries the sign.  Zero is the empty       *)
(* sequence.                                                               *)
(***************************************************************************)
Base == 10^4

\* TRUE of every value.  TLC computes an argument where it is first used; a
\* guard Evaluated(v) computes v there and then, as the program does in
\* statement order, which keeps the nesting of an evaluation shallow.
Evaluated(v) == v = v

Max(a, b) == IF a >= b THEN a ELSE b
Min(a, b) == IF a <= b THEN a ELSE b
Abs(a) == IF a >= 0 THEN a ELSE -a

Limb(a, i) == IF i <= Len(a) THEN a[i] ELSE 0

\* a without its leading zero limbs
Strip(a) ==
    IF \A i \in 1..Len(a) : a[i] = 0 THEN <<>>
    ELSE SubSeq(a, 1, CHOOSE i \in 1..Len(a) :
                          a[i] # 0 /\ \A j \in (i + 1)..Len(a) : a[j] = 0)

\* What limb i hands to limb i+1; the last limb keeps a value of magnitude
\* below Base, sign included.
CarryOut(raw, i) ==
    IF i = Len(raw) /\ raw[i] > -Base /\ raw[i] < Base THEN 0
    ELSE raw[i] \div Base

CarryPass(raw) ==
    [i \in 1..(Len(raw) + 1) |->
        (IF i <= Len(raw) THEN raw[i] - Base * CarryOut(raw, i) ELSE 0)
        + (IF i > 1 THEN CarryOut(raw, i - 1) ELSE 0)]

\* Carries are passed on until none is left; s \o <<>> is s, held as a tuple
RECURSIVE Normalize(_)
Normalize(raw) ==
    IF \A i \in 1..Len(raw) : CarryOut(raw, i) = 0 THEN Strip(raw)
    ELSE Normalize(Strip(CarryPass(raw) \o <<>>))

BigFromInt(k) == Normalize(<<k>>)
BigSign(a) == IF a = <<>> THEN 0 ELSE IF a[Len(a)] > 0 THEN 1 ELSE -1
BigAdd(a, b) ==
    CASE Evaluated(a) /\ Evaluated(b) ->
        Normalize([i \in 1..Max(Len(a), Len(b)) |-> Limb(a, i) + Limb(b, i)] \o <<>>)
BigSub(a, b) ==
    CASE Evaluated(a) /\ Evaluated(b) ->
        Normalize([i \in 1..Max(Len(a), Len(b)) |-> Limb(a, i) - Limb(b, i)] \o <<>>)
\* k is a machine integer of magnitude below 2^31 / Base
BigScale(a, k) ==
    CASE Evaluated(a) -> Normalize([i \in 1..Len(a) |-> a[i] * k] \o <<>>)

RECURSIVE ColSum(_, _, _, _)
ColSum(a, b, k, i) ==
    IF i > Min(Len(a), k) THEN 0
    ELSE a[i] * b[k - i + 1] + ColSum(a, b, k, i + 1)

BigMul(a, b) ==
    IF Evaluated(a) /\ Evaluated(b) /\ (a = <<>> \/ b = <<>>) THEN <<>>
    ELSE Normalize([k \in 1..(Len(a) + Len(b) - 1) |->
                       ColSum(a, b, k, Max(1, k + 1 - Len(b)))] \o <<>>)

(***************************************************************************)
(* Exact numbers [n, e], standing for n / 160^e.                           *)
(***************************************************************************)
Num(n, e) == IF n = <<>> THEN [n |-> <<>>, e |-> 0] ELSE [n |-> n, e |-> e]
NumInt(k) == Num(BigFromInt(k), 0)

\* n * 160^d
RECURSIVE ScaleUp(_, _)
ScaleUp(n, d) ==
    IF Evaluated(n) /\ d = 0 THEN n ELSE ScaleUp(BigScale(n, 160), d - 1)

NumAdd(a, b) ==
    LET e == Max(a.e, b.e)
    IN  CASE Evaluated(a) /\ Evaluated(b) ->
            Num(BigAdd(ScaleUp(a.n, e - a.e), ScaleUp(b.n, e - b.e)), e)
NumSub(a, b) ==
    LET e == Max(a.e, b.e)
    IN  CASE Evaluated(a) /\ Evaluated(b) ->
            Num(BigSub(ScaleUp(a.n, e - a.e), ScaleUp(b.n, e - b.e)), e)
NumMul(a, b) ==
    CASE Evaluated(a) /\ Evaluated(b) -> Num(BigMul(a.n, b.n), a.e + b.e)
\* a * k
NumScale(a, k) == CASE Evaluated(a) -> Num(BigScale(a.n, k), a.e)
\* a * k / d, for d = 16 (an error weight) or d = 10 (a strength in tenths)
NumFraction(a, k, d) ==
    CASE Evaluated(a) -> Num(BigScale(a.n, k * (160 \div d)), a.e + 1)
NumSign(a) == BigSign(a.n)
NumLess(a, b) == NumSign(NumSub(a, b)) < 0
NumEq(a, b) == NumSign(NumSub(a, b)) = 0

(***************************************************************************)
(* Small fractions <<num, den>>, den > 0, for the quotients that are       *)
(* rounded at once (a neighbourhood mean, a cell mean, a scaled height).   *)
(***************************************************************************)
Q(n) == <<n, 1>>
Floor(q) == q[1] \div q[2]
\* Math.round: the nearest integer, a half rounded towards +Infinity
Round(q) == (2 * q[1] + q[2]) \div (2 * q[2])
Ceil(q) == -((-q[1]) \div q[2])

RECURSIVE SeqSum(_)
SeqSum(s) == IF s = <<>> THEN 0 ELSE Head(s) + SeqSum(Tail(s))

(***************************************************************************)
(* Pixel buffers.  An ImageData is [width, height, data] with data the     *)
(* row-major sequence of its pixels, each [r, g, b, a] of bytes; data[k+1] *)
(* stands for the four array slots 4k .. 4k+3.                             *)
(***************************************************************************)
NoImage == [width |-> 0, height |-> 0, data |-> <<>>]
TransparentBlack == [r |-> 0, g |-> 0, b |-> 0, a |-> 0]

\* new ImageData(sw, sh): the constructor throws unless both are positive
\* (zero is an IndexSizeError; a negative argument wraps to an unsigned long
\* whose buffer cannot be allocated)
\* A constructor that rejects only negative sizes
ImageDataThrowsNegative(sw, sh) == sw < 0 \/ sh < 0
ImageDataThrows(sw, sh) == sw <= 0 \/ sh <= 0
ImageDataError(sw, sh) ==
    IF sw = 0 \/ sh = 0 THEN "IndexSizeError" ELSE "RangeError"
ImageData(sw, sh) ==
    [width |-> sw, height |-> sh, data |-> [k \in 1..(sw * sh) |-> TransparentBlack]]

\* A read one pixel further on
getRGBAShifted(imageData, x, y) ==
    LET index == y * imageData.width + x + 1
    IN  IF index >= 0 /\ index < Len(imageData.data)
        THEN imageData.data[index + 1]
        ELSE [r |-> 0, g |-> 0, b |-> 0, a |-> 0]

\* A slot outside data reads undefined; written through setRGBA it becomes
\* NaN, which a Uint8ClampedArray stores as 0.
getRGBA(imageData, x, y) ==
    LET index == y * imageData.width + x
    IN  IF index >= 0 /\ index < Len(imageData.data)
        THEN imageData.data[index + 1]
        ELSE TransparentBlack

ClampByte(q) == Max(0, Min(255, Round(q)))

\* A write that rounds and does not clamp
setRGBAUnclamped(imageData, x, y, color) ==
    LET index == y * imageData.width + x
    IN  IF index >= 0 /\ index < Len(imageData.data)
        THEN [imageData EXCEPT !.data[index + 1] =
                 [r |-> Round(color.r), g |-> Round(color.g),
                  b |-> Round(color.b), a |-> Round(color.a)]]
        ELSE imageData

\* color has fraction channels; a write outside data is dropped by the array
setRGBA(imageData, x, y, color) ==
    LET index == y * imageData.width + x
    IN  IF index >= 0 /\ index < Len(imageData.data)
        THEN [imageData EXCEPT !.data[index + 1] =
                 [r |-> ClampByte(color.r), g |-> ClampByte(color.g),
                  b |-> ClampByte(color.b), a |-> ClampByte(color.a)]]
        ELSE imageData

QColor(c) == [r |-> Q(c.r), g |-> Q(c.g), b |-> Q(c.b), a |-> Q(c.a)]
NumColor(c) == [r |-> NumInt(c.r), g |-> NumInt(c.g), b |-> NumInt(c.b), a |-> c.a]

(***************************************************************************)
(* Colour distance.  The value is the SQUARE of the distance the code      *)
(* returns, in units of 10^-5: the weights 0.299, 0.587 and 0.114 appear   *)
(* as 299, 587 and 114, and the grayscale penalty 1.5 as 225 against 100.  *)
(* color1 has exact-number channels, color2 is a palette entry.            *)
(***************************************************************************)
WeightR == 299
WeightG == 587
WeightB == 114

\* The penalty decided by color1 instead of the candidate color2
colorDistanceSquaredByFirst(color1, color2) ==
    LET rDiff == NumSub(color1.r, NumInt(color2.r))
        gDiff == NumSub(color1.g, NumInt(color2.g))
        bDiff == NumSub(color1.b, NumInt(color2.b))
        isGrayscale1 == NumEq(color1.r, color1.g) /\ NumEq(color1.g, color1.b)
        distance == NumAdd(NumAdd(NumScale(NumMul(rDiff, rDiff), WeightR),
                                  NumScale(NumMul(gDiff, gDiff), WeightG)),
                           NumScale(NumMul(bDiff, bDiff), WeightB))
    IN  NumScale(distance,
                 IF isGrayscale1 /\ NumSign(color1.r) # 0 THEN 225 ELSE 100)

colorDistanceSquared(color1, color2) ==
    LET rDiff == NumSub(color1.r, NumInt(color2.r))
        gDiff == NumSub(color1.g, NumInt(color2.g))
        bDiff == NumSub(color1.b, NumInt(color2.b))
        isGrayscale2 == color2.r = color2.g /\ color2.g = color2.b
        distance == NumAdd(NumAdd(NumScale(NumMul(rDiff, rDiff), WeightR),
                                  NumScale(NumMul(gDiff, gDiff), WeightG)),
                           NumScale(NumMul(bDiff, bDiff), WeightB))
    IN  NumScale(distance,
                 IF isGrayscale2 /\ ~(color2.r = 0 /\ color2.g = 0 /\ color2.b = 0)
                 THEN 225 ELSE 100)

\* A loop that replaces the best entry on an equal distance too
RECURSIVE closestIndex(_, _, _, _, _)
closestFromLast(color1, palette, i, best, minDistance, distance) ==
    IF Evaluated(distance) /\ (best = 0 \/ ~NumLess(minDistance, distance))
    THEN closestIndex(color1, palette, i + 1, i, distance)
    ELSE closestIndex(color1, palette, i + 1, best, minDistance)

\* A loop that keeps the entry at the greatest distance
closestFromFarthest(color1, palette, i, best, minDistance, distance) ==
    IF Evaluated(distance) /\ (best = 0 \/ NumLess(minDistance, distance))
    THEN closestIndex(color1, palette, i + 1, i, distance)
    ELSE closestIndex(color1, palette, i + 1, best, minDistance)

\* One pass of the loop of findClosestColor, distance being that of
\* palette[i]; best = 0 stands for minDistance = Infinity.
closestFrom(color1, palette, i, best, minDistance, distance) ==
    IF Evaluated(distance) /\ (best = 0 \/ NumLess(distance, minDistance))
    THEN closestIndex(color1, palette, i + 1, i, distance)
    ELSE closestIndex(color1, palette, i + 1, best, minDistance)

closestIndex(color1, palette, i, best, minDistance) ==
    IF i > Len(palette) THEN best
    ELSE closestFrom(color1, palette, i, best, minDistance,
                     colorDistanceSquared(color1, palette[i]))

\* palette[0] of an empty palette is undefined: callers then throw
Undefined == [undefined |-> TRUE]
findClosestColor(color1, palette) ==
    IF palette = <<>> THEN Undefined
    ELSE palette[closestIndex(color1, palette, 1, 0, NumInt(0))]

(***************************************************************************)
(* resizeImage.  ratio = targetWidth / width is Infinity or NaN when the   *)
(* width is 0; the unsigned-long conversion of the ImageData constructor   *)
(* turns either into 0.                                                    *)
(***************************************************************************)
SignedFrac(num, den) == IF den > 0 THEN <<num, den>> ELSE <<-num, -den>>

\* The scaled height truncated instead of rounded
targetHeightFloor(imageData, targetWidth) ==
    IF imageData.width = 0 THEN 0
    ELSE Floor(SignedFrac(imageData.height * targetWidth, imageData.width))

targetHeightOf(imageData, targetWidth) ==
    IF imageData.width = 0 THEN 0
    ELSE Round(SignedFrac(imageData.height * targetWidth, imageData.width))

resizeThrows(imageData, targetWidth) ==
    ImageDataThrows(targetWidth, targetHeightOf(imageData, targetWidth))

\* A loop that samples the source row from its right end
RECURSIVE resizeLoop(_, _, _, _, _)
resizeLoopMirrored(imageData, targetWidth, targetHeight, k, output) ==
    IF Evaluated(output) /\ k >= targetWidth * targetHeight THEN output
    ELSE LET x == k % targetWidth
             y == k \div targetWidth
             srcX == Floor(SignedFrac((targetWidth - 1 - x) * imageData.width,
                                      targetWidth))
             srcY == Floor(SignedFrac(y * imageData.height, targetHeight))
             pixel == getRGBA(imageData, srcX, srcY)
         IN  resizeLoop(imageData, targetWidth, targetHeight, k + 1,
                        setRGBA(output, x, y, QColor(pixel)))

resizeLoop(imageData, targetWidth, targetHeight, k, output) ==
    IF Evaluated(output) /\ k >= targetWidth * targetHeight THEN output
    ELSE LET x == k % targetWidth
             y == k \div targetWidth
             srcX == Floor(SignedFrac(x * imageData.width, targetWidth))
             srcY == Floor(SignedFrac(y * imageData.height, targetHeight))
             pixel == getRGBA(imageData, srcX, srcY)
         IN  resizeLoop(imageData, targetWidth, targetHeight, k + 1,
                        setRGBA(output, x, y, QColor(pixel)))

\* A resize that clamps targetWidth into the slider's range 8..256
resizeImageClamped(imageData, targetWidth) ==
    LET clamped == Max(8, Min(256, targetWidth))
        targetHeight == targetHeightOf(imageData, clamped)
    IN  resizeLoop(imageData, clamped, targetHeight, 0,
                   ImageData(clamped, targetHeight))

resizeImage(imageData, targetWidth) ==
    LET targetHeight == targetHeightOf(imageData, targetWidth)
    IN  resizeLoop(imageData, targetWidth, targetHeight, 0,
                   ImageData(targetWidth, targetHeight))

(***************************************************************************)
(* detectAndPreserveEdges and its helpers.  Lumas are in thousandths.      *)
(***************************************************************************)
NeighborOffsets ==
    << <<-1, -1>>, <<0, -1>>, <<1, -1>>, <<-1, 0>>, <<1, 0>>,
       <<-1, 1>>, <<0, 1>>, <<1, 1>> >>

RECURSIVE neighborsFrom(_, _, _, _)
neighborsFrom(imageData, x, y, i) ==
    IF i > Len(NeighborOffsets) THEN <<>>
    ELSE LET nx == x + NeighborOffsets[i][1]
             ny == y + NeighborOffsets[i][2]
             rest == neighborsFrom(imageData, x, y, i + 1)
         IN  IF nx >= 0 /\ nx < imageData.width /\ ny >= 0 /\ ny < imageData.height
             THEN <<getRGBA(imageData, nx, ny)>> \o rest
             ELSE rest

getNeighborPixels(imageData, x, y) == neighborsFrom(imageData, x, y, 1)

Luma1000(c) == c.r * WeightR + c.g * WeightG + c.b * WeightB

\* A test that also calls a difference equal to the threshold an edge
isEdgePixelAtThreshold(center, neighbors, threshold) ==
    \E i \in 1..Len(neighbors) :
        Abs(Luma1000(center) - Luma1000(neighbors[i])) >= 1000 * threshold

isEdgePixel(center, neighbors, threshold) ==
    \E i \in 1..Len(neighbors) :
        Abs(Luma1000(center) - Luma1000(neighbors[i])) > 1000 * threshold

averageColor(pixels) ==
    [r |-> <<SeqSum([i \in 1..Len(pixels) |-> pixels[i].r]), Len(pixels)>>,
     g |-> <<SeqSum([i \in 1..Len(pixels) |-> pixels[i].g]), Len(pixels)>>,
     b |-> <<SeqSum([i \in 1..Len(pixels) |-> pixels[i].b]), Len(pixels)>>,
     a |-> <<SeqSum([i \in 1..Len(pixels) |-> pixels[i].a]), Len(pixels)>>]

\* A loop body that reads the neighbours from the buffer being written
edgeStepInPlace(imageData, threshold, k, output) ==
    LET x == k % imageData.width
        y == k \div imageData.width
        neighbors == getNeighborPixels(output, x, y)
        center == getRGBA(output, x, y)
    IN  IF Len(neighbors) > 0 /\ ~isEdgePixel(center, neighbors, threshold)
        THEN setRGBA(output, x, y, averageColor(neighbors))
        ELSE output

\* The body of the loops of detectAndPreserveEdges for the pixel number k
edgeStep(imageData, threshold, k, output) ==
    LET x == k % imageData.width
        y == k \div imageData.width
        neighbors == getNeighborPixels(imageData, x, y)
        center == getRGBA(imageData, x, y)
    IN  IF Len(neighbors) > 0 /\ ~isEdgePixel(center, neighbors, threshold)
        THEN setRGBA(output, x, y, averageColor(neighbors))
        ELSE output

RECURSIVE edgesLoop(_, _, _, _)
edgesLoop(imageData, threshold, k, output) ==
    IF Evaluated(output) /\ k >= imageData.width * imageData.height THEN output
    ELSE edgesLoop(imageData, threshold, k + 1,
                   edgeStep(imageData, threshold, k, output))

\* output after the copy loop
edgesStart(imageData) ==
    [width |-> imageData.width, height |-> imageData.height,
     data |-> imageData.data]

\* threshold is this.options.edgeThreshold of the converter
detectAndPreserveEdges(imageData, threshold) ==
    edgesLoop(imageData, threshold, 0, edgesStart(imageData))

(***************************************************************************)
(* quantizeColors                                                          *)
(***************************************************************************)
RECURSIVE quantizeLoop(_, _, _, _)
quantizeLoop(imageData, palette, k, output) ==
    IF Evaluated(output) /\ k >= imageData.width * imageData.height THEN output
    ELSE LET x == k % imageData.width
             y == k \div imageData.width
             pixel == getRGBA(imageData, x, y)
             newColor == findClosestColor(NumColor(pixel), palette)
         IN  quantizeLoop(imageData, palette, k + 1,
                          setRGBA(output, x, y, QColor(newColor)))

\* setRGBA reads color.r of undefined, a TypeError, at the first pixel
reduceThrows(imageData, palette) ==
    palette = <<>> /\ imageData.width * imageData.height > 0

\* A pass that writes the pixel it read instead of newColor
quantizeColorsUnmapped(imageData, palette) ==
    [width |-> imageData.width, height |-> imageData.height,
     data |-> imageData.data]

quantizeColors(imageData, palette) ==
    quantizeLoop(imageData, palette, 0, ImageData(imageData.width, imageData.height))

(***************************************************************************)
(* applyDithering and distributeError.  errors[y][x] is errors[y*width +   *)
(* x + 1]; strength is a number of tenths (3 is 0.3, 10 is 1.0).  The      *)
(* state of the pass is [errors, output]; ditherStep is one iteration of   *)
(* the inner loop, in the order of its statements.                         *)
(***************************************************************************)
ZeroError == [r |-> NumInt(0), g |-> NumInt(0), b |-> NumInt(0)]

\* A kernel whose first target is the pixel to the left
distributionBackward(x, y) ==
    << <<x - 1, y, 7>>, <<x - 1, y + 1, 3>>, <<x, y + 1, 5>>, <<x + 1, y + 1, 1>> >>

\* A kernel with the weights of the two lower-left targets exchanged
distributionExchanged(x, y) ==
    << <<x + 1, y, 7>>, <<x - 1, y + 1, 5>>, <<x, y + 1, 3>>, <<x + 1, y + 1, 1>> >>

distribution(x, y) ==
    << <<x + 1, y, 7>>, <<x - 1, y + 1, 3>>, <<x, y + 1, 5>>, <<x + 1, y + 1, 1>> >>

\* A loop that tests the row of a target and not its column
RECURSIVE distributeFrom(_, _, _, _, _, _, _)
distributeFromAnyColumn(errors, error, x, y, width, height, i) ==
    IF Evaluated(errors) /\ i > Len(distribution(x, y)) THEN errors
    ELSE LET nx == distribution(x, y)[i][1]
             ny == distribution(x, y)[i][2]
             weight == distribution(x, y)[i][3]
         IN  IF ny >= 0 /\ ny < height
             THEN distributeFrom(
                      [errors EXCEPT ![ny * width + nx + 1] =
                          [r |-> NumAdd(@.r, NumFraction(error.r, weight, 16)),
                           g |-> NumAdd(@.g, NumFraction(error.g, weight, 16)),
                           b |-> NumAdd(@.b, NumFraction(error.b, weight, 16))]],
                      error, x, y, width, height, i + 1)
             ELSE distributeFrom(errors, error, x, y, width, height, i + 1)

distributeFrom(errors, error, x, y, width, height, i) ==
    IF Evaluated(errors) /\ i > Len(distribution(x, y)) THEN errors
    ELSE LET nx == distribution(x, y)[i][1]
             ny == distribution(x, y)[i][2]
             weight == distribution(x, y)[i][3]
         IN  IF nx >= 0 /\ nx < width /\ ny >= 0 /\ ny < height
             THEN distributeFrom(
                      [errors EXCEPT ![ny * width + nx + 1] =
                          [r |-> NumAdd(@.r, NumFraction(error.r, weight, 16)),
                           g |-> NumAdd(@.g, NumFraction(error.g, weight, 16)),
                           b |-> NumAdd(@.b, NumFraction(error.b, weight, 16))]],
                      error, x, y, width, height, i + 1)
             ELSE distributeFrom(errors, error, x, y, width, height, i + 1)

distributeError(errors, error, x, y, width, height) ==
    distributeFrom(errors, error, x, y, width, height, 1)

ditherStart(imageData) ==
    [errors |-> [k \in 1..(imageData.width * imageData.height) |-> ZeroError],
     output |-> ImageData(imageData.width, imageData.height)]

\* The accumulated error fed back in full, whatever the strength
adjustedPixelFull(pixel, error, strength) ==
    [r |-> NumAdd(NumInt(pixel.r), error.r),
     g |-> NumAdd(NumInt(pixel.g), error.g),
     b |-> NumAdd(NumInt(pixel.b), error.b),
     a |-> pixel.a]

adjustedPixelOf(pixel, error, strength) ==
    [r |-> NumAdd(NumInt(pixel.r), NumFraction(error.r, strength, 10)),
     g |-> NumAdd(NumInt(pixel.g), NumFraction(error.g, strength, 10)),
     b |-> NumAdd(NumInt(pixel.b), NumFraction(error.b, strength, 10)),
     a |-> pixel.a]

pixelErrorOf(adjustedPixel, newPixel) ==
    [r |-> NumSub(adjustedPixel.r, NumInt(newPixel.r)),
     g |-> NumSub(adjustedPixel.g, NumInt(newPixel.g)),
     b |-> NumSub(adjustedPixel.b, NumInt(newPixel.b))]

\* setRGBA(output, x, y, newPixel), then distributeError
ditherWrite(st, x, y, width, height, adjustedPixel, newPixel) ==
    [output |-> setRGBA(st.output, x, y, QColor(newPixel)),
     errors |-> distributeError(st.errors, pixelErrorOf(adjustedPixel, newPixel),
                                x, y, width, height)]

ditherPixel(st, x, y, width, height, adjustedPixel, palette) ==
    CASE Evaluated(adjustedPixel) ->
        ditherWrite(st, x, y, width, height, adjustedPixel,
                    findClosestColor(adjustedPixel, palette))

ditherStep(imageData, palette, strength, st, k) ==
    LET x == k % imageData.width
        y == k \div imageData.width
    IN  ditherPixel(st, x, y, imageData.width, imageData.height,
                    adjustedPixelOf(getRGBA(imageData, x, y), st.errors[k + 1],
                                    strength),
                    palette)

RECURSIVE ditherLoop(_, _, _, _, _)
ditherLoop(imageData, palette, strength, st, k) ==
    IF Evaluated(st) /\ k >= imageData.width * imageData.height THEN st
    ELSE ditherLoop(imageData, palette, strength,
                    ditherStep(imageData, palette, strength, st, k), k + 1)

applyDithering(imageData, palette, strength) ==
    ditherLoop(imageData, palette, strength, ditherStart(imageData), 0).output

(***************************************************************************)
(* rgbToHsl, on bytes.  h, s and l are fractions: with r, g, b divided by  *)
(* 255 the code's l is (max+min)/510, its d is (max-min)/255, and l > 0.5  *)
(* is max+min > 255.  The switch takes the first of r, g, b equal to max.  *)
(***************************************************************************)
\* A conversion without the + 6 of the case g < b
rgbToHslNoWrap(r, g, b) ==
    LET max == Max(r, Max(g, b))
        min == Min(r, Min(g, b))
        l == <<max + min, 510>>
        d == max - min
        s == IF max + min > 255 THEN <<d, 510 - max - min>> ELSE <<d, max + min>>
        h6 == IF max = r THEN <<g - b, d>>
              ELSE IF max = g THEN <<(b - r) + 2 * d, d>>
              ELSE <<(r - g) + 4 * d, d>>
    IN  IF max = min THEN [h |-> Q(0), s |-> Q(0), l |-> l]
        ELSE [h |-> <<h6[1], 6 * h6[2]>>, s |-> s, l |-> l]

rgbToHsl(r, g, b) ==
    LET max == Max(r, Max(g, b))
        min == Min(r, Min(g, b))
        l == <<max + min, 510>>
        d == max - min
        s == IF max + min > 255 THEN <<d, 510 - max - min>> ELSE <<d, max + min>>
        h6 == IF max = r THEN <<(g - b) + (IF g < b THEN 6 ELSE 0) * d, d>>
              ELSE IF max = g THEN <<(b - r) + 2 * d, d>>
              ELSE <<(r - g) + 4 * d, d>>
    IN  IF max = min THEN [h |-> Q(0), s |-> Q(0), l |-> l]
        ELSE [h |-> <<h6[1], 6 * h6[2]>>, s |-> s, l |-> l]

(***************************************************************************)
(* generatePalette.  A Map iterates in insertion order and Array.sort is   *)
(* stable, so bins, cells and ties keep the order of first appearance.     *)
(* The count field the code leaves on the returned entries is dropped.     *)
(***************************************************************************)
HUE_BINS == 12
SL_GRID == 4

MulFloor(q, k) == (q[1] * k) \div q[2]

RECURSIVE firstSeen(_, _)
firstSeen(s, seen) ==
    IF s = <<>> THEN <<>>
    ELSE IF Head(s) \in seen THEN firstSeen(Tail(s), seen)
    ELSE <<Head(s)>> \o firstSeen(Tail(s), seen \cup {Head(s)})

\* x goes after every element whose count is at least its own
RECURSIVE insertByCount(_, _)
insertByCount(sorted, x) ==
    IF sorted = <<>> THEN <<x>>
    ELSE IF Head(sorted).count >= x.count
         THEN <<Head(sorted)>> \o insertByCount(Tail(sorted), x)
         ELSE <<x>> \o sorted

RECURSIVE sortByCount(_, _)
sortByCount(s, sorted) ==
    IF s = <<>> THEN sorted
    ELSE sortByCount(Tail(s), insertByCount(sorted, Head(s)))

\* Array.slice(0, n): a negative n counts from the end
slice0(s, n) == SubSeq(s, 1, IF n >= 0 THEN Min(n, Len(s)) ELSE Max(Len(s) + n, 0))

RECURSIVE concatAll(_)
concatAll(ss) == IF ss = <<>> THEN <<>> ELSE Head(ss) \o concatAll(Tail(ss))

hueBinOf(pixel) == MulFloor(pixel.h, HUE_BINS)
cellKeyOf(pixel) == <<MulFloor(pixel.s, SL_GRID), MulFloor(pixel.l, SL_GRID)>>

\* Cell colours that are the sums of their cells, not the means
cellColorsOfSummed(binPixels, colorsPerBin) ==
    LET keys == firstSeen([i \in 1..Len(binPixels) |-> cellKeyOf(binPixels[i])], {})
        cellOf(key) == SelectSeq(binPixels, LAMBDA p : cellKeyOf(p) = key)
        colorOf(key) ==
            LET cell == cellOf(key)
                count == Len(cell)
            IN  [r |-> SeqSum([i \in 1..count |-> cell[i].r]),
                 g |-> SeqSum([i \in 1..count |-> cell[i].g]),
                 b |-> SeqSum([i \in 1..count |-> cell[i].b]),
                 count |-> count]
    IN  slice0(sortByCount([i \in 1..Len(keys) |-> colorOf(keys[i])], <<>>),
               colorsPerBin)

cellColorsOf(binPixels, colorsPerBin) ==
    LET keys == firstSeen([i \in 1..Len(binPixels) |-> cellKeyOf(binPixels[i])], {})
        cellOf(key) == SelectSeq(binPixels, LAMBDA p : cellKeyOf(p) = key)
        colorOf(key) ==
            LET cell == cellOf(key)
                count == Len(cell)
            IN  [r |-> Round(<<SeqSum([i \in 1..count |-> cell[i].r]), count>>),
                 g |-> Round(<<SeqSum([i \in 1..count |-> cell[i].g]), count>>),
                 b |-> Round(<<SeqSum([i \in 1..count |-> cell[i].b]), count>>),
                 count |-> count]
    IN  slice0(sortByCount([i \in 1..Len(keys) |-> colorOf(keys[i])], <<>>),
               colorsPerBin)

\* A closing slice taken before the sort
selectColorsSliceFirst(palette, colorLimit) ==
    LET limited == sortByCount(slice0(palette, colorLimit), <<>>)
    IN  [i \in 1..Len(limited) |->
            [r |-> limited[i].r, g |-> limited[i].g, b |-> limited[i].b, a |-> 255]]

\* The closing sort and map without the slice
selectColorsUnlimited(palette, colorLimit) ==
    LET limited == sortByCount(palette, <<>>)
    IN  [i \in 1..Len(limited) |->
            [r |-> limited[i].r, g |-> limited[i].g, b |-> limited[i].b, a |-> 255]]

\* the closing sort, slice and map of generatePalette
selectColors(palette, colorLimit) ==
    LET limited == slice0(sortByCount(palette, <<>>), colorLimit)
    IN  [i \in 1..Len(limited) |->
            [r |-> limited[i].r, g |-> limited[i].g, b |-> limited[i].b, a |-> 255]]

\* The record generatePalette pushes for the pixel p, with the hue bin and
\* the cell key it then computes for it
binnedPixel(p) ==
    LET hsl == rgbToHsl(p.r, p.g, p.b)
        pixel == [r |-> p.r, g |-> p.g, b |-> p.b,
                  h |-> hsl.h, s |-> hsl.s, l |-> hsl.l]
    IN  [pixel |-> pixel, hueBin |-> hueBinOf(pixel), key |-> cellKeyOf(pixel)]

generatePalette(imageData, colorLimit) ==
    LET pixels == [i \in 1..Len(imageData.data) |->
                      LET p == imageData.data[i]
                          hsl == rgbToHsl(p.r, p.g, p.b)
                      IN  [r |-> p.r, g |-> p.g, b |-> p.b,
                           h |-> hsl.h, s |-> hsl.s, l |-> hsl.l]]
        hueBins == firstSeen([i \in 1..Len(pixels) |-> hueBinOf(pixels[i])], {})
        colorsPerBin == Ceil(<<colorLimit, HUE_BINS>>)
        binPixels(bin) == SelectSeq(pixels, LAMBDA p : hueBinOf(p) = bin)
        palette == concatAll([i \in 1..Len(hueBins) |->
                                 cellColorsOf(binPixels(hueBins[i]), colorsPerBin)])
    IN  selectColors(palette, colorLimit)


(***************************************************************************)
(* validatePalette of the component, on palettes whose channels are        *)
(* numbers: TRUE when it throws "Invalid palette: ...".                    *)
(***************************************************************************)
validColor(color) ==
    /\ color.r >= 0 /\ color.r <= 255
    /\ color.g >= 0 /\ color.g <= 255
    /\ color.b >= 0 /\ color.b <= 255

validatePaletteThrows(palette) ==
    \/ Len(palette) = 0
    \/ ~(\A i \in 1..Len(palette) : validColor(palette[i]))

(***************************************************************************)
(* The converter.  new PicPixeller() is built without options, so          *)
(* this.options holds the constructor's defaults.                          *)
(***************************************************************************)
converterOptions == [edgeThreshold |-> 100, ditheringStrength |-> 10]

\* A palette taken from the buffer the resize returned, not from the
\* buffer the edge pass returned
selectPaletteFromResized(resized, processed, palette, colorLimit) ==
    IF palette # << >> THEN palette[1]
    ELSE generatePalette(resized, colorLimit)

\* palette || this.generatePalette(processed, colorLimit): the palette
\* option is <<>> for null and <<p>> for the array p, which is truthy even
\* when empty.  resized is in scope and not read.
selectPalette(resized, processed, palette, colorLimit) ==
    IF palette # << >> THEN palette[1]
    ELSE generatePalette(processed, colorLimit)

\* The methods convertToPixelArt invokes after the resize, in statement order
stagesAfterResize(preserveEdges, palette, dithering) ==
    (IF preserveEdges THEN << "detectAndPreserveEdges" >> ELSE << >>)
    \o (IF palette # << >> THEN << >> ELSE << "generatePalette" >>)
    \o << IF dithering THEN "applyDithering" ELSE "quantizeColors" >>

\* The colour-reduction stage of convertToPixelArt
reduceColors(processed, colorPalette, dithering, ditheringStrength) ==
    IF dithering
    THEN applyDithering(processed, colorPalette, ditheringStrength)
    ELSE quantizeColors(processed, colorPalette)

(***************************************************************************)
(* Memory.  A conversion works on objects: the ImageData buffers, the      *)
(* palette arrays and the converter's this.options.  memory holds them in  *)
(* the order of their creation and a reference is a position in it, 0 for  *)
(* no object.  Every stage reads the objects it is handed through their    *)
(* references and stores what it produces under the reference that         *)
(* new ImageData(...) or the array literal gave it.                        *)
(***************************************************************************)
NoMemory == [buffers |-> << >>, palettes |-> << >>, options |-> converterOptions]
NoRefs == [call |-> 0, imageData |-> 0, palette |-> 0, resized |-> 0,
           processed |-> 0, colorPalette |-> 0, result |-> 0, first |-> << >>]

\* An output stored over the stage's first argument
inputBuffer(memory) == 1

\* const output = new ImageData(...): an object no reference held before
newImageData(memory) == Len(memory.buffers) + 1

\* The writes of a stage to the buffer output, which ends holding buffer
writeBuffer(memory, output, buffer) ==
    [memory EXCEPT !.buffers =
        [i \in 1..Max(Len(memory.buffers), output) |->
            IF i = output THEN buffer ELSE memory.buffers[i]] \o << >>]

resizeImageAt(memory, imageData, targetWidth) ==
    writeBuffer(memory, newImageData(memory),
                resizeImage(memory.buffers[imageData], targetWidth))

detectAndPreserveEdgesAt(memory, imageData) ==
    writeBuffer(memory, newImageData(memory),
                detectAndPreserveEdges(memory.buffers[imageData],
                                       memory.options.edgeThreshold))

\* The palette is a new array: return sortedPalette.slice(0, colorLimit)
generatePaletteAt(memory, imageData, colorLimit) ==
    [memory EXCEPT !.palettes =
        Append(@, generatePalette(memory.buffers[imageData], colorLimit))]

\* The output is allocated before the first pixel is mapped, so a pass that
\* throws there leaves a blank buffer nothing refers to
reduceColorsAt(memory, imageData, palette, dithering, ditheringStrength) ==
    LET source == memory.buffers[imageData]
        colors == memory.palettes[palette]
    IN  writeBuffer(memory, newImageData(memory),
                    IF reduceThrows(source, colors)
                    THEN ImageData(source.width, source.height)
                    ELSE reduceColors(source, colors, dithering, ditheringStrength))

\* What the caller holds when it calls convertToPixelArt(imageData, options)
\* on a new converter
memoryAtCall(imageData, options) ==
    [buffers |-> << imageData >>, palettes |-> options.palette,
     options |-> converterOptions]
refsAtCall(options, call, first) ==
    [call |-> call, imageData |-> 1,
     palette |-> IF options.palette # << >> THEN 1 ELSE 0,
     resized |-> 0, processed |-> 0, colorPalette |-> 0, result |-> 0,
     first |-> first]

(***************************************************************************)
(* Palette text.  A text is a sequence of one-character strings.           *)
(***************************************************************************)
Digits == << "0", "1", "2", "3", "4", "5", "6", "7", "8", "9" >>
isDigit(c) == \E d \in 1..10 : Digits[d] = c
digitValue(c) == (CHOOSE d \in 1..10 : Digits[d] = c) - 1
isWhitespace(c) == c \in {" ", "\n", "\t", "\r"}

RECURSIVE digitsOf(_)
digitsOf(n) ==
    IF n < 10 THEN << Digits[n + 1] >>
    ELSE digitsOf(n \div 10) \o << Digits[(n % 10) + 1] >>

\* JSON.stringify of an integer number
numberText(n) == IF n < 0 THEN << "-" >> \o digitsOf(-n) ELSE digitsOf(n)

RECURSIVE joinTexts(_, _)
joinTexts(texts, i) ==
    IF i > Len(texts) THEN << >>
    ELSE (IF i > 1 THEN << "," >> ELSE << >>) \o texts[i] \o joinTexts(texts, i + 1)

arrayText(texts) == << "[" >> \o joinTexts(texts, 1) \o << "]" >>

\* JSON.stringify of an array of arrays of integers
stringify(rows) ==
    arrayText([i \in 1..Len(rows) |->
                  arrayText([j \in 1..Len(rows[i]) |-> numberText(rows[i][j])])])

matchesAt(text, i, pattern) ==
    /\ i + Len(pattern) - 1 <= Len(text)
    /\ \A k \in 1..Len(pattern) : text[i + k - 1] = pattern[k]

\* text.replace(pattern, replacement) with a string pattern: the first
\* occurrence only
RECURSIVE replaceFirstFrom(_, _, _, _)
replaceFirstFrom(text, pattern, replacement, i) ==
    IF i > Len(text) THEN << >>
    ELSE IF matchesAt(text, i, pattern)
         THEN replacement \o SubSeq(text, i + Len(pattern), Len(text))
         ELSE << text[i] >> \o replaceFirstFrom(text, pattern, replacement, i + 1)
replaceFirst(text, pattern, replacement) ==
    replaceFirstFrom(text, pattern, replacement, 1)

\* text.replace(/pattern/g, replacement) for a pattern of literal characters
RECURSIVE replaceAllFrom(_, _, _, _)
replaceAllFrom(text, pattern, replacement, i) ==
    IF i > Len(text) THEN << >>
    ELSE IF matchesAt(text, i, pattern)
         THEN replacement \o replaceAllFrom(text, pattern, replacement, i + Len(pattern))
         ELSE << text[i] >> \o replaceAllFrom(text, pattern, replacement, i + 1)
replaceAll(text, pattern, replacement) ==
    replaceAllFrom(text, pattern, replacement, 1)

\* The palette of the model holds integers, which Math.round returns as
\* they are
formattedColors(palette) ==
    [i \in 1..Len(palette) |-> << palette[i].r, palette[i].g, palette[i].b >>]

\* A format that loses the comma between two colours
formatPaletteCommaLost(palette) ==
    replaceFirst(
        replaceFirst(
            replaceAll(stringify(formattedColors(palette)),
                       << "]", ",", "[" >>, << "]", "\n", "[" >>),
            << "[", "[" >>, << "[", "\n", "[" >>),
        << "]", "]" >>, << "]", "\n", "]" >>)

formatPalette(palette) ==
    replaceFirst(
        replaceFirst(
            replaceAll(stringify(formattedColors(palette)),
                       << "]", ",", "[" >>, << "]", ",", "\n", "[" >>),
            << "[", "[" >>, << "[", "\n", "[" >>),
        << "]", "]" >>, << "]", "\n", "]" >>)

(***************************************************************************)
(* JSON.parse for texts of arrays, integers, strings without escapes and   *)
(* the literals null, true and false.  A value is a record with its type.  *)
(* No text the model edits has a fraction, an exponent or an object.       *)
(***************************************************************************)
SyntaxError == [ok |-> FALSE, value |-> [type |-> "null"], next |-> 0]
parsedAs(value, next) == [ok |-> TRUE, value |-> value, next |-> next]

RECURSIVE skipWhitespace(_, _)
skipWhitespace(text, i) ==
    IF i <= Len(text) /\ isWhitespace(text[i]) THEN skipWhitespace(text, i + 1) ELSE i

RECURSIVE digitsEnd(_, _)
digitsEnd(text, i) ==
    IF i <= Len(text) /\ isDigit(text[i]) THEN digitsEnd(text, i + 1) ELSE i

RECURSIVE digitsValue(_, _, _, _)
digitsValue(text, i, end, acc) ==
    IF i >= end THEN acc
    ELSE digitsValue(text, i + 1, end, acc * 10 + digitValue(text[i]))

\* -? (0 | [1-9][0-9]*): a leading zero ends the number
parseNumber(text, i) ==
    LET negative == i <= Len(text) /\ text[i] = "-"
        first == IF negative THEN i + 1 ELSE i
        end == IF first <= Len(text) /\ text[first] = "0"
               THEN first + 1 ELSE digitsEnd(text, first)
        magnitude == digitsValue(text, first, end, 0)
    IN  IF end = first THEN SyntaxError
        ELSE parsedAs([type |-> "number",
                       n |-> IF negative THEN -magnitude ELSE magnitude], end)

RECURSIVE stringEnd(_, _)
stringEnd(text, i) ==
    IF i > Len(text) THEN 0
    ELSE IF text[i] = "\"" THEN i
    ELSE IF text[i] \in {"\\", "\n", "\t", "\r"} THEN 0
    ELSE stringEnd(text, i + 1)

parseString(text, i) ==
    LET end == stringEnd(text, i + 1)
    IN  IF end = 0 THEN SyntaxError
        ELSE parsedAs([type |-> "string", chars |-> SubSeq(text, i + 1, end - 1)],
                      end + 1)

parseLiteral(text, i, word, value) ==
    IF matchesAt(text, i, word) THEN parsedAs(value, i + Len(word)) ELSE SyntaxError

RECURSIVE parseValue(_, _)
RECURSIVE parseItems(_, _, _)

\* The items of an array after its first, i at the character after an item
parseItems(text, i, items) ==
    LET at == skipWhitespace(text, i)
    IN  IF at > Len(text) THEN SyntaxError
        ELSE IF text[at] = "]"
        THEN parsedAs([type |-> "array", items |-> items], at + 1)
        ELSE IF text[at] # "," THEN SyntaxError
        ELSE LET item == parseValue(text, skipWhitespace(text, at + 1))
             IN  IF ~item.ok THEN SyntaxError
                 ELSE parseItems(text, item.next, Append(items, item.value))

parseArray(text, i) ==
    LET at == skipWhitespace(text, i + 1)
    IN  IF at <= Len(text) /\ text[at] = "]"
        THEN parsedAs([type |-> "array", items |-> << >>], at + 1)
        ELSE LET item == parseValue(text, at)
             IN  IF ~item.ok THEN SyntaxError
                 ELSE parseItems(text, item.next, << item.value >>)

parseValue(text, i) ==
    IF i > Len(text) THEN SyntaxError
    ELSE IF text[i] = "[" THEN parseArray(text, i)
    ELSE IF text[i] = "\"" THEN parseString(text, i)
    ELSE IF text[i] = "-" \/ isDigit(text[i]) THEN parseNumber(text, i)
    ELSE IF text[i] = "n"
         THEN parseLiteral(text, i, << "n", "u", "l", "l" >>, [type |-> "null"])
    ELSE IF text[i] = "t"
         THEN parseLiteral(text, i, << "t", "r", "u", "e" >>,
                           [type |-> "boolean", b |-> TRUE])
    ELSE IF text[i] = "f"
         THEN parseLiteral(text, i, << "f", "a", "l", "s", "e" >>,
                           [type |-> "boolean", b |-> FALSE])
    ELSE SyntaxError

JSONparse(text) ==
    LET value == parseValue(text, skipWhitespace(text, 1))
    IN  IF value.ok /\ skipWhitespace(text, value.next) = Len(text) + 1
        THEN value ELSE SyntaxError

(***************************************************************************)
(* The palette editor: parsed.map(([r, g, b]) => ({r: Number(r), ...})).   *)
(* A number is a record, nan for NaN.                                      *)
(***************************************************************************)
NaN == [nan |-> TRUE, n |-> 0]
numberOf(n) == [nan |-> FALSE, n |-> n]

\* Number(string) for a string of digits, the empty string or any other
\* string of letters
stringToNumber(chars) ==
    IF chars = << >> THEN numberOf(0)
    ELSE IF \A k \in 1..Len(chars) : isDigit(chars[k])
         THEN numberOf(digitsValue(chars, 1, Len(chars) + 1, 0))
         ELSE NaN

\* Number(value), undefined being the value of a missing item.  An array
\* converts through its string: [] is 0, [v] is Number(String(v)), a longer
\* one is NaN.
RECURSIVE toNumber(_)
toNumber(value) ==
    CASE value.type = "number" -> numberOf(value.n)
      [] value.type = "null" -> numberOf(0)
      [] value.type = "undefined" -> NaN
      [] value.type = "boolean" -> numberOf(IF value.b THEN 1 ELSE 0)
      [] value.type = "string" -> stringToNumber(value.chars)
      [] value.type = "array" ->
            IF Len(value.items) = 0 THEN numberOf(0)
            ELSE IF Len(value.items) > 1 THEN NaN
            ELSE IF value.items[1].type = "boolean" THEN NaN
            ELSE toNumber(value.items[1])

\* Arrays and strings can be destructured by [r, g, b]
isIterable(value) == value.type \in {"array", "string"}
itemAt(value, k) ==
    IF value.type = "array"
    THEN IF k <= Len(value.items) THEN value.items[k] ELSE [type |-> "undefined"]
    ELSE IF k <= Len(value.chars)
         THEN [type |-> "string", chars |-> << value.chars[k] >>]
         ELSE [type |-> "undefined"]

\* typeof is "number" for every result of Number(); NaN fails each comparison
numberInRange(v) == ~v.nan /\ v.n >= 0 /\ v.n <= 255

\* The editor's handler up to its setCurrentPalette: accepted with the new
\* palette, or not accepted when JSON.parse, map, the destructuring or
\* validatePalette throws
NotAccepted == [accepted |-> FALSE, palette |-> << >>]
editedPaletteUnchecked(input) ==
    LET parsed == JSONparse(input)
    IN  IF ~parsed.ok THEN NotAccepted
        ELSE IF parsed.value.type # "array" THEN NotAccepted
        ELSE LET rows == parsed.value.items
             IN  IF \E i \in 1..Len(rows) : ~isIterable(rows[i]) THEN NotAccepted
                 ELSE [accepted |-> TRUE,
                       palette |-> [i \in 1..Len(rows) |->
                           [r |-> toNumber(itemAt(rows[i], 1)).n,
                            g |-> toNumber(itemAt(rows[i], 2)).n,
                            b |-> toNumber(itemAt(rows[i], 3)).n,
                            a |-> 255]] \o << >>]

editedPalette(input) ==
    LET parsed == JSONparse(input)
    IN  IF ~parsed.ok THEN NotAccepted
        ELSE IF parsed.value.type # "array" THEN NotAccepted
        ELSE LET rows == parsed.value.items
                 number(i, k) == toNumber(itemAt(rows[i], k))
             IN  IF \E i \in 1..Len(rows) : ~isIterable(rows[i]) THEN NotAccepted
                 ELSE IF Len(rows) = 0 THEN NotAccepted
                 ELSE IF \E i \in 1..Len(rows), k \in 1..3 : ~numberInRange(number(i, k))
                      THEN NotAccepted
                 ELSE [accepted |-> TRUE,
                       palette |-> [i \in 1..Len(rows) |->
                           [r |-> number(i, 1).n, g |-> number(i, 2).n,
                            b |-> number(i, 3).n, a |-> 255]] \o << >>]

(***************************************************************************)
(* The component.  Its convertToPixelArt runs from the mount effect, from  *)
(* the button and from a drop once the image has loaded; every await in it *)
(* resolves without a timer or an event, so no user event is handled       *)
(* between its statements.  It reads settings, currentPalette and          *)
(* processing of the render that created it.                               *)
(***************************************************************************)
initialSettings ==
    [targetWidth |-> 200, colorLimit |-> 16, dithering |-> TRUE,
     preserveEdges |-> TRUE, useCurrentPalette |-> FALSE, ditheringStrength |-> 3]

\* A canvas is blank or holds the result of converting imageData with options
NoCanvas == [written |-> FALSE]
NoHandler ==
    [step |-> "idle", settings |-> initialSettings, currentPalette |-> << >>,
     processing |-> FALSE, palette |-> << >>, thrown |-> "none",
     entry |-> NoCanvas]

\* convertToPixelArt of a render whose state is as given, about to be called
handlerOf(renderSettings, renderPalette, renderProcessing) ==
    [step |-> "begin", settings |-> renderSettings,
     currentPalette |-> renderPalette, processing |-> renderProcessing,
     palette |-> << >>, thrown |-> "none", entry |-> NoCanvas]

\* The message of the Error that validatePalette throws, as rethrown
cannotUseMessage(palette) ==
    IF Len(palette) = 0
    THEN "Cannot use current palette: Invalid palette: Palette must be a non-empty array"
    ELSE "Cannot use current palette: Invalid palette: Each color must have valid RGB values (0-255)"

\* {...settings, palette}
optionsOf(renderSettings, palette) ==
    [targetWidth |-> renderSettings.targetWidth,
     colorLimit |-> renderSettings.colorLimit,
     dithering |-> renderSettings.dithering,
     preserveEdges |-> renderSettings.preserveEdges,
     useCurrentPalette |-> renderSettings.useCurrentPalette,
     ditheringStrength |-> renderSettings.ditheringStrength,
     palette |-> << palette >>]

\* What await converter.convertToPixelArt(imageData, options) throws, the
\* name of the exception standing for its message.  After a resize that did
\* not throw the buffer has pixels, so an empty palette is a TypeError.
conversionThrown(imageData, callOptions) ==
    IF resizeThrows(imageData, callOptions.targetWidth)
    THEN ImageDataError(callOptions.targetWidth,
                        targetHeightOf(imageData, callOptions.targetWidth))
    ELSE IF callOptions.palette[1] = << >> THEN "TypeError"
    ELSE "none"

\* The buffer converter.convertToPixelArt(imageData, options) resolves to
conversionResult(imageData, callOptions) ==
    LET small == resizeImage(imageData, callOptions.targetWidth)
        edged == IF callOptions.preserveEdges
                 THEN detectAndPreserveEdges(small, converterOptions.edgeThreshold)
                 ELSE small
    IN  reduceColors(edged,
                     selectPalette(small, edged, callOptions.palette,
                                   callOptions.colorLimit),
                     callOptions.dithering, callOptions.ditheringStrength)

\* putImageData(result, 0, 0) after the canvas took the size of result
writtenCanvas(imageData, callOptions) ==
    [written |-> TRUE, width |-> callOptions.targetWidth,
     height |-> targetHeightOf(imageData, callOptions.targetWidth),
     imageData |-> imageData, options |-> callOptions]
canvasImage(c) == conversionResult(c.imageData, c.options)

\* An exception that leaves the handler without passing catch and finally
stepAfterConvertUncaught(failure) == IF failure = "none" THEN "write" ELSE "idle"

\* try { ... await ...; write } catch { ... } finally { ... }
stepAfterConvert(failure) == IF failure = "none" THEN "write" ELSE "catch"

\* The values a control can give a setting: the ends of the sliders that
\* the model uses and the other position of each switch.  The colour
\* slider is disabled while the current palette is in use, the strength
\* slider while dithering is off.
SliderWidths == {8, 200}
SliderLimits == {2, 16}
SliderStrengths == {0, 3, 10}
settingChanges(s) ==
    ({ [s EXCEPT !.targetWidth = w] : w \in SliderWidths }
     \cup (IF s.useCurrentPalette THEN {}
           ELSE { [s EXCEPT !.colorLimit = c] : c \in SliderLimits })
     \cup (IF ~s.dithering THEN {}
           ELSE { [s EXCEPT !.ditheringStrength = d] : d \in SliderStrengths })
     \cup { [s EXCEPT !.dithering = ~s.dithering],
            [s EXCEPT !.preserveEdges = ~s.preserveEdges],
            [s EXCEPT !.useCurrentPalette = ~s.useCurrentPalette] })
    \ { s }

(***************************************************************************)
(* Inputs.  Pixels are drawn from a pool that has opaque, translucent and  *)
(* transparent colours, two hues, black, white and two grays.  A source    *)
(* is a shape filled from the pool: pixel k holds pool entry               *)
(* offset + k * stride (mod the pool), so stride 0 is a one-colour image.  *)
(***************************************************************************)
MaxOffset == 1
MaxStride == 2
MaxBelowZero == 1
MaxResizeSide == 3
MaxGridSide == 3
MaxUniformSide == 8
MaxRepeat == 2

Black == [r |-> 0, g |-> 0, b |-> 0, a |-> 255]
Red == [r |-> 255, g |-> 0, b |-> 0, a |-> 255]
Gray == [r |-> 100, g |-> 100, b |-> 100, a |-> 255]
White == [r |-> 255, g |-> 255, b |-> 255, a |-> 255]
Pool ==
    << Red, TransparentBlack, Gray,
       [r |-> 0, g |-> 0, b |-> 255, a |-> 128], Black, White,
       [r |-> 10, g |-> 10, b |-> 10, a |-> 255] >>

sourceImage(w, h, offset, stride) ==
    [width |-> w, height |-> h,
     data |-> [k \in 1..(IF w > 0 /\ h > 0 THEN w * h ELSE 0) |->
                  Pool[((offset + (k - 1) * stride) % Len(Pool)) + 1]]]

Patterns == (0..MaxOffset) \X (0..MaxStride)

\* Shapes whose scaled height rounds down (16x1 at width 8 is 0.5 -> 1),
\* rounds a half up (16x3 -> 1.5 -> 2), rounds to 0 (17x1), or grows (4x1).
ConvertShapes == { <<16, 1>>, <<16, 3>>, <<17, 1>>, <<4, 1>> }
ConvertSources ==
    { sourceImage(s[1], s[2], p[1], p[2]) : s \in ConvertShapes, p \in Patterns }

\* One-row sources: one that halves, one that fails to resize, one that grows
StoreShapes == { <<16, 1>>, <<17, 1>>, <<4, 1>> }
StoreSources ==
    { sourceImage(s[1], s[2], p[1], p[2]) : s \in StoreShapes, p \in Patterns }

ValidPalette == << Black, Red, Gray >>
EmptyPalette == << >>
OutOfRangePalette ==
    << [r |-> 300, g |-> 0, b |-> 0, a |-> 255],
       [r |-> 0, g |-> -20, b |-> 0, a |-> 255] >>

\* targetWidth 4, colorLimit 1 and ditheringStrength 1.5 lie outside the
\* ranges of the component's sliders (8..256, 2..64, 0..1); 0.3 is the
\* component's default strength.  A palette
\* option is <<>> for none or <<p>> for the palette p.  Settings that the
\* chosen path never reads take one value.
ConvertOptions ==
    { o \in [targetWidth : {4, 8}, colorLimit : {1, 2, 16},
             dithering : BOOLEAN, preserveEdges : BOOLEAN,
             ditheringStrength : {3, 15},
             palette : {<<>>, <<ValidPalette>>, <<EmptyPalette>>,
                        <<OutOfRangePalette>>}] :
        /\ o.dithering \/ o.ditheringStrength = 3
        /\ o.palette = <<>> \/ o.colorLimit = 16 }

\* Direct calls of resizeImage, degenerate sources and widths included
ResizeSources ==
    { sourceImage(w, h, p[1], p[2]) :
          w \in (-MaxBelowZero)..MaxResizeSide,
          h \in (-MaxBelowZero)..MaxResizeSide, p \in Patterns }
ResizeOptions ==
    { [targetWidth |-> tw, colorLimit |-> 16, dithering |-> TRUE,
       preserveEdges |-> TRUE, ditheringStrength |-> 3, palette |-> <<>>] :
          tw \in (-MaxBelowZero)..MaxResizeSide }

\* Direct calls of quantizeColors and applyDithering
ReduceShapes == { <<2, 2>>, <<3, 1>>, <<3, 2>> }
ReduceBuffers ==
    { sourceImage(s[1], s[2], p[1], p[2]) : s \in ReduceShapes, p \in Patterns }
ReducePalettes ==
    { << Black, White >>, ValidPalette,
      << Gray, [r |-> 0, g |-> 0, b |-> 255, a |-> 255], Red,
         [r |-> 100, g |-> 100, b |-> 100, a |-> 0] >>,
      << White, [r |-> 200, g |-> 200, b |-> 200, a |-> 255], Black, White >>,
      << Red, [r |-> 20, g |-> 10, b |-> 10, a |-> 255],
         [r |-> 0, g |-> 10, b |-> 10, a |-> 255] >> }
ReduceOptions ==
    { [targetWidth |-> 8, colorLimit |-> 16, dithering |-> TRUE,
       preserveEdges |-> FALSE, ditheringStrength |-> s, palette |-> <<>>] :
          s \in {0, 3, 10} }

\* Direct calls of colorDistance
DistColors ==
    { Black, Red, Gray, White,
      [r |-> 10, g |-> 10, b |-> 10, a |-> 255],
      [r |-> 0, g |-> 255, b |-> 0, a |-> 255],
      [r |-> 0, g |-> 0, b |-> 255, a |-> 255],
      [r |-> 200, g |-> 200, b |-> 200, a |-> 255],
      [r |-> 254, g |-> 1, b |-> 0, a |-> 255],
      [r |-> 100, g |-> 100, b |-> 101, a |-> 255],
      [r |-> 1, g |-> 1, b |-> 1, a |-> 255] }

\* Direct calls of distributeError: the grid of a width x height buffer,
\* all zero as applyDithering creates it or already holding error, the
\* position of the pixel just written, and its residual
GridShapes == (1..MaxGridSide) \X (1..MaxGridSide)
HeldError == [r |-> NumInt(1), g |-> NumInt(-2), b |-> Num(BigFromInt(30), 1)]
ErrorGrids(width, height) ==
    { [k \in 1..(width * height) |-> e] : e \in {ZeroError, HeldError} }
Residuals ==
    { [r |-> NumInt(16), g |-> NumInt(0), b |-> NumInt(0)],
      ZeroError,
      [r |-> NumInt(-16), g |-> NumInt(8), b |-> NumInt(1)],
      [r |-> Num(BigFromInt(-51), 1), g |-> NumInt(255), b |-> NumInt(-255)] }

\* Direct calls of quantizeColors on buffers of the one colour (10,10,10),
\* against black and pure red in either order
NearBlack == [r |-> 10, g |-> 10, b |-> 10, a |-> 255]
UniformBuffers ==
    { [width |-> w, height |-> h, data |-> [k \in 1..(w * h) |-> NearBlack]] :
          w \in 1..MaxUniformSide, h \in 1..MaxUniformSide }
BlackRedPalettes == { << Black, Red >>, << Red, Black >> }

\* Direct calls of detectAndPreserveEdges: a lone pixel, a row, and blocks
\* with corner, border and inner pixels.  SoftBlock has a centre whose luma
\* is within the threshold of all eight neighbours, two of which are an
\* edge to each other.
EdgeShapes == { <<1, 1>>, <<3, 1>>, <<2, 2>>, <<3, 2>>, <<3, 3>> }
SoftBlock ==
    [width |-> 3, height |-> 3,
     data |-> << Black, [r |-> 200, g |-> 200, b |-> 200, a |-> 255], Red,
                 [r |-> 0, g |-> 0, b |-> 255, a |-> 128], Gray, TransparentBlack,
                 [r |-> 10, g |-> 10, b |-> 10, a |-> 255], Red, Gray >>]
EdgeBuffers ==
    { sourceImage(s[1], s[2], p[1], p[2]) : s \in EdgeShapes, p \in Patterns }
        \cup { SoftBlock }
\* this.options.edgeThreshold
edgeThreshold == 100

\* Colours binned by generatePalette: every triple over channel values at
\* and next to the ends and the middle of a byte
ChannelValues == { 0, 1, 64, 127, 128, 191, 254, 255 }
BinColours ==
    { [r |-> r, g |-> g, b |-> b, a |-> 255] :
          r \in ChannelValues, g \in ChannelValues, b \in ChannelValues }

\* Direct calls of generatePalette.  The buffers are rows of pixels of up
\* to seven hue families (red, orange, yellow, green, cyan, blue, magenta),
\* a bright and a dark colour of each, every colour repeated, with or
\* without one pixel of a rarer hue first or last and with or without one
\* more dark red that shares the cell of (100,0,0).
Opaque(r, g, b) == [r |-> r, g |-> g, b |-> b, a |-> 255]
Family(v) ==
    << Opaque(v, 0, 0), Opaque(v, (3 * v) \div 4, 0), Opaque(v, v, 0),
       Opaque(0, v, 0), Opaque(0, v, v), Opaque(0, 0, v), Opaque(v, 0, v) >>
RareHue == Opaque(0, 200, 150)
DarkRedToo == Opaque(103, 0, 0)
RECURSIVE Repeated(_, _)
Repeated(colour, n) == IF n = 0 THEN << >> ELSE << colour >> \o Repeated(colour, n - 1)
RECURSIVE familyPixels(_, _)
familyPixels(f, n) ==
    IF f = 0 THEN << >>
    ELSE familyPixels(f - 1, n) \o Repeated(Family(255)[f], n)
             \o Repeated(Family(100)[f], n)
rowImage(pixels) == [width |-> Len(pixels), height |-> 1, data |-> pixels]
PaletteBuffers ==
    { rowImage((IF rare = "first" THEN << RareHue >> ELSE << >>)
               \o familyPixels(f, n)
               \o (IF rare = "last" THEN << RareHue >> ELSE << >>)
               \o (IF blend THEN << DarkRedToo >> ELSE << >>)) :
          f \in 1..7, n \in 1..MaxRepeat, rare \in {"none", "first", "last"},
          blend \in BOOLEAN }
PaletteLimits == { 1, 2, 12, 13, 14, 16, 24 }
PaletteOptions ==
    { [targetWidth |-> 8, colorLimit |-> c, dithering |-> TRUE,
       preserveEdges |-> FALSE, ditheringStrength |-> 3, palette |-> <<>>] :
          c \in PaletteLimits }

\* Calls of convertToPixelArt whose options record carries an
\* edgeThreshold, <<>> when the record does not give one, as the type
\* Options allows
CallThresholds == { << >>, << 0 >>, << 30 >>, << 200 >> }
ThresholdOptions ==
    { [targetWidth |-> tw, colorLimit |-> 16, dithering |-> FALSE,
       preserveEdges |-> TRUE, ditheringStrength |-> 3,
       palette |-> << ValidPalette >>, edgeThreshold |-> t] :
          tw \in {4, 8}, t \in CallThresholds }

\* Palettes whose numbers have one, two and three digits
TextValues == {0, 9, 10, 255}
TextColours ==
    { [r |-> r, g |-> g, b |-> b, a |-> 255] :
          r \in TextValues, g \in TextValues, b \in TextValues }
RoundTripPalettes ==
    { << c >> : c \in TextColours }
    \cup { << c, d >> : c, d \in { Black, Red, [r |-> 9, g |-> 10, b |-> 255, a |-> 255] } }
    \cup { << c, d, e >> : c, d, e \in { Black, [r |-> 255, g |-> 10, b |-> 9, a |-> 255] } }

\* The image the mount effect draws, 16x1 in place of 512x512, and the
\* images the user drops: at the width 8 the second resizes to no rows
DemoImage == sourceImage(16, 1, 0, 1)
DropImages == { sourceImage(16, 1, 1, 1), sourceImage(17, 1, 0, 1) }

\* What the user leaves in the palette editor: two palettes, an unfinished
\* text, the empty array, a channel out of range, rows that are numbers, a
\* row of two numbers, null, and a string as a row
EditTexts ==
    { << "[", "[", "2", "5", "5", ",", " ", "0", ",", " ", "0", "]", ",", "\n",
         "[", "0", ",", "0", ",", "0", "]", "]" >>,
      << "[", "[", "0", ",", "0", ",", "2", "5", "5", "]", "]" >>,
      << "[", "[", "2", "5", "5", "," >>,
      << "[", "]" >>,
      << "[", "[", "3", "0", "0", ",", "0", ",", "0", "]", "]" >>,
      << "[", "1", ",", "2", ",", "3", "]" >>,
      << "[", "[", "1", ",", "2", "]", "]" >>,
      << "n", "u", "l", "l" >>,
      << "[", "\"", "1", "2", "3", "\"", "]" >> }

MaxEvents == 3

(***************************************************************************)
(* State.                                                                  *)
(***************************************************************************)
VARIABLES
    pc,            \* where the call in progress stands
    imageData,     \* the source buffer of the call
    options,       \* the options of the call
    resized,       \* the buffer resizeImage returned
    processed,     \* the buffer handed to palette generation and reduction
    colorPalette,  \* the palette in use
    result,        \* the buffer the call returned
    thrown,        \* "none", or the name of the exception that ended the call
    quantized,     \* quantizeColors(processed, colorPalette)
    dithered,      \* applyDithering(processed, colorPalette, strength)
    requantized,   \* quantizeColors(quantized, colorPalette)
    color1,
    color2,
    distance,      \* the square of colorDistance(color1, color2)
    reverse,       \* the square of colorDistance(color2, color1)
    stages,        \* the methods the call has invoked so far, in order
    pending,       \* the pixels an edge pass has not yet processed
    errors,        \* the error grid of a dithering pass
    cursor,        \* the number of pixels a dithering pass has visited
    residual,      \* the error handed to distributeError
    binned,        \* the pixel record, hue bin and cell key of one colour
    memory,        \* the buffers, palette arrays and converter options that exist
    refs,          \* the references the conversion in progress holds
    processing,    \* the component's state: useState(false)
    error,         \* useState("")
    currentPalette, \* useState([])
    paletteText,   \* useState("")
    settings,      \* useState({targetWidth: 200, ...})
    source,        \* the image on the source canvas
    canvas,        \* the result canvas
    handler,       \* the call of the component's convertToPixelArt in progress
    dropped,       \* the dropped image that is loading, with its handler
    events         \* the number of events the user has caused

passVars == << pending, errors, cursor, residual >>
storeVars == << memory, refs >>
uiVars == << processing, error, currentPalette, paletteText, settings, source,
             canvas, handler, dropped, events >>
extraVars == << binned, storeVars, uiVars >>

vars == << pc, imageData, options, resized, processed, colorPalette, result,
           thrown, quantized, dithered, requantized, color1, color2, distance,
           reverse, stages, passVars, extraVars >>

NoPixel == [none |-> TRUE]
IdleStore ==
    /\ memory = NoMemory
    /\ refs = NoRefs
\* No component
IdleUI ==
    /\ processing = FALSE
    /\ error = ""
    /\ currentPalette = << >>
    /\ paletteText = << >>
    /\ settings = initialSettings
    /\ source = NoImage
    /\ canvas = NoCanvas
    /\ handler = NoHandler
    /\ dropped = << >>
    /\ events = 0
IdleExtra ==
    /\ binned = NoPixel
    /\ IdleStore
    /\ IdleUI

IdlePass ==
    /\ pending = {}
    /\ errors = << >>
    /\ cursor = 0
    /\ residual = ZeroError

IdleCall ==
    /\ resized = NoImage
    /\ result = NoImage
    /\ thrown = "none"
    /\ quantized = NoImage
    /\ dithered = NoImage
    /\ requantized = NoImage
    /\ distance = NumInt(0)
    /\ reverse = NumInt(0)
    /\ stages = << >>

Idle == IdleCall /\ IdlePass

\* A call of convertToPixelArt
Init ==
    /\ pc = "start"
    /\ imageData \in ConvertSources
    /\ options \in ConvertOptions
    /\ processed = NoImage
    /\ colorPalette = << >>
    /\ color1 = Black
    /\ color2 = Black
    /\ Idle
    /\ IdleExtra

\* A call of resizeImage
InitResize ==
    /\ pc = "start"
    /\ imageData \in ResizeSources
    /\ options \in ResizeOptions
    /\ processed = NoImage
    /\ colorPalette = << >>
    /\ color1 = Black
    /\ color2 = Black
    /\ Idle
    /\ IdleExtra

\* Calls of quantizeColors and applyDithering on one buffer and palette
InitReduce ==
    /\ pc = "reduce"
    /\ imageData = NoImage
    /\ options \in ReduceOptions
    /\ processed \in ReduceBuffers
    /\ colorPalette \in ReducePalettes
    /\ color1 = Black
    /\ color2 = Black
    /\ Idle
    /\ IdleExtra

\* A call of colorDistance
InitDist ==
    /\ pc = "measure"
    /\ imageData = NoImage
    /\ options \in ReduceOptions
    /\ options.ditheringStrength = 3
    /\ processed = NoImage
    /\ colorPalette = << >>
    /\ color1 \in DistColors
    /\ color2 \in DistColors
    /\ Idle
    /\ IdleExtra

\* A call of quantizeColors on a buffer of one colour
InitUniform ==
    /\ pc = "reduce"
    /\ imageData = NoImage
    /\ options \in ReduceOptions
    /\ options.ditheringStrength = 3
    /\ processed \in UniformBuffers
    /\ colorPalette \in BlackRedPalettes
    /\ color1 = Black
    /\ color2 = Black
    /\ Idle
    /\ IdleExtra

\* A call of detectAndPreserveEdges(resized), output being processed; the
\* source visits the pixels row by row, here they are taken in any order
InitEdges ==
    /\ pc = "edges"
    /\ imageData = NoImage
    /\ options \in ReduceOptions
    /\ options.ditheringStrength = 3
    /\ resized \in EdgeBuffers
    /\ processed = edgesStart(resized)
    /\ pending = 0..(resized.width * resized.height - 1)
    /\ colorPalette = << >>
    /\ color1 = Black
    /\ color2 = Black
    /\ result = NoImage
    /\ thrown = "none"
    /\ quantized = NoImage
    /\ dithered = NoImage
    /\ requantized = NoImage
    /\ distance = NumInt(0)
    /\ reverse = NumInt(0)
    /\ stages = << >>
    /\ errors = << >>
    /\ cursor = 0
    /\ residual = ZeroError
    /\ IdleExtra

\* A call of applyDithering(processed, colorPalette, strength) after its
\* output and error grid are created
InitDither ==
    /\ pc = "dithering"
    /\ imageData = NoImage
    /\ options \in ReduceOptions
    /\ processed \in ReduceBuffers
    /\ colorPalette \in ReducePalettes
    /\ errors = ditherStart(processed).errors
    /\ dithered = ditherStart(processed).output
    /\ cursor = 0
    /\ residual = ZeroError
    /\ pending = {}
    /\ color1 = Black
    /\ color2 = Black
    /\ resized = NoImage
    /\ result = NoImage
    /\ thrown = "none"
    /\ quantized = NoImage
    /\ requantized = NoImage
    /\ distance = NumInt(0)
    /\ reverse = NumInt(0)
    /\ stages = << >>
    /\ IdleExtra

\* generatePalette about to bin the pixel color1
InitBin ==
    /\ pc = "bin"
    /\ imageData = NoImage
    /\ options \in ReduceOptions
    /\ options.ditheringStrength = 3
    /\ processed = NoImage
    /\ colorPalette = << >>
    /\ color1 \in BinColours
    /\ color2 = Black
    /\ binned = NoPixel
    /\ IdleStore
    /\ IdleUI
    /\ Idle

\* A call of generatePalette(processed, colorLimit)
InitPalette ==
    /\ pc = "palette"
    /\ imageData = NoImage
    /\ options \in PaletteOptions
    /\ processed \in PaletteBuffers
    /\ colorPalette = << >>
    /\ color1 = Black
    /\ color2 = Black
    /\ Idle
    /\ IdleExtra

\* A call of convertToPixelArt with an edgeThreshold among its options
InitThreshold ==
    /\ pc = "start"
    /\ imageData \in ConvertSources
    /\ options \in ThresholdOptions
    /\ processed = NoImage
    /\ colorPalette = << >>
    /\ color1 = Black
    /\ color2 = Black
    /\ Idle
    /\ IdleExtra

\* A caller holding a source buffer and an options record, about to convert
\* them twice on one converter
InitStore ==
    /\ pc = "start"
    /\ imageData \in StoreSources
    /\ options \in ConvertOptions
    /\ memory = memoryAtCall(imageData, options)
    /\ refs = refsAtCall(options, 1, << >>)
    /\ processed = NoImage
    /\ colorPalette = << >>
    /\ color1 = Black
    /\ color2 = Black
    /\ binned = NoPixel
    /\ IdleUI
    /\ Idle

\* formatPalette about to format colorPalette
InitFormat ==
    /\ pc = "format"
    /\ imageData = NoImage
    /\ options \in ReduceOptions
    /\ options.ditheringStrength = 3
    /\ processed = NoImage
    /\ colorPalette \in RoundTripPalettes
    /\ color1 = Black
    /\ color2 = Black
    /\ Idle
    /\ IdleExtra

\* The component after its first render, its effects not yet run
InitUI ==
    /\ pc = "component"
    /\ imageData = NoImage
    /\ options \in ReduceOptions
    /\ options.ditheringStrength = 3
    /\ processed = NoImage
    /\ colorPalette = << >>
    /\ color1 = Black
    /\ color2 = Black
    /\ Idle
    /\ binned = NoPixel
    /\ IdleStore
    /\ processing = FALSE
    /\ error = ""
    /\ currentPalette = << >>
    /\ paletteText = << >>
    /\ settings = initialSettings
    /\ source = NoImage
    /\ canvas = NoCanvas
    /\ handler = [NoHandler EXCEPT !.step = "mount"]
    /\ dropped = << >>
    /\ events = 0

\* A call of distributeError(errors, residual, x, y, width, height) for
\* the pixel number cursor of a buffer of the size of processed
InitDistribute ==
    /\ pc = "distribute"
    /\ imageData = NoImage
    /\ options \in ReduceOptions
    /\ options.ditheringStrength = 3
    /\ \E s \in GridShapes :
           /\ processed = ImageData(s[1], s[2])
           /\ errors \in ErrorGrids(s[1], s[2])
           /\ cursor \in 0..(s[1] * s[2] - 1)
    /\ residual \in Residuals
    /\ pending = {}
    /\ colorPalette = << >>
    /\ color1 = Black
    /\ color2 = Black
    /\ IdleCall
    /\ IdleExtra

(***************************************************************************)
(* convertToPixelArt awaits resizeImage and runs the rest without a        *)
(* further await: the call is two steps.  An exception rejects the         *)
(* promise and no buffer is returned.                                      *)
(***************************************************************************)
Resize ==
    /\ pc = "start"
    /\ IF resizeThrows(imageData, options.targetWidth)
       THEN /\ pc' = "failed"
            /\ thrown' = ImageDataError(options.targetWidth,
                                        targetHeightOf(imageData, options.targetWidth))
            /\ resized' = NoImage
       ELSE /\ pc' = "resized"
            /\ thrown' = "none"
            /\ resized' = resizeImage(imageData, options.targetWidth)
    /\ stages' = << "resizeImage" >>
    /\ UNCHANGED << imageData, options, processed, colorPalette, result,
                    quantized, dithered, requantized, color1, color2, distance,
                    reverse,
                    passVars, extraVars >>

Convert ==
    /\ pc = "resized"
    /\ LET edged == IF options.preserveEdges
                    THEN detectAndPreserveEdges(resized, converterOptions.edgeThreshold)
                    ELSE resized
           chosen == selectPalette(resized, edged, options.palette,
                                   options.colorLimit)
       IN  /\ processed' = edged
           /\ colorPalette' = chosen
           /\ IF reduceThrows(edged, chosen)
              THEN /\ pc' = "failed"
                   /\ thrown' = "TypeError"
                   /\ result' = NoImage
              ELSE /\ pc' = "done"
                   /\ thrown' = "none"
                   /\ result' = reduceColors(edged, chosen, options.dithering,
                                             options.ditheringStrength)
    /\ stages' = stages \o stagesAfterResize(options.preserveEdges,
                                              options.palette, options.dithering)
    /\ UNCHANGED << imageData, options, resized, quantized, dithered,
                    requantized, color1, color2, distance,
                    reverse,
                    passVars, extraVars >>

Quantize ==
    /\ pc = "reduce"
    /\ quantized' = quantizeColors(processed, colorPalette)
    /\ pc' = "quantized"
    /\ UNCHANGED << imageData, options, resized, processed, colorPalette, result,
                    thrown, dithered, requantized, color1, color2, distance,
                    reverse,
                    stages, passVars, extraVars >>

Dither ==
    /\ pc = "quantized"
    /\ dithered' = applyDithering(processed, colorPalette, options.ditheringStrength)
    /\ pc' = "dithered"
    /\ UNCHANGED << imageData, options, resized, processed, colorPalette, result,
                    thrown, quantized, requantized, color1, color2, distance,
                    reverse,
                    stages, passVars, extraVars >>

Requantize ==
    /\ pc = "dithered"
    /\ requantized' = quantizeColors(quantized, colorPalette)
    /\ pc' = "requantized"
    /\ UNCHANGED << imageData, options, resized, processed, colorPalette, result,
                    thrown, quantized, dithered, color1, color2, distance,
                    reverse,
                    stages, passVars, extraVars >>

Measure ==
    /\ pc = "measure"
    /\ distance' = colorDistanceSquared(NumColor(color1), color2)
    /\ pc' = "measured"
    /\ UNCHANGED << imageData, options, resized, processed, colorPalette, result,
                    thrown, quantized, dithered, requantized, color1, color2,
                    reverse,
                    stages, passVars, extraVars >>

\* The same call with the arguments exchanged
MeasureReverse ==
    /\ pc = "measured"
    /\ reverse' = colorDistanceSquared(NumColor(color2), color1)
    /\ pc' = "reversed"
    /\ UNCHANGED << imageData, options, resized, processed, colorPalette, result,
                    thrown, quantized, dithered, requantized, color1, color2,
                    distance,
                    stages, passVars, extraVars >>

Distribute ==
    /\ pc = "distribute"
    /\ errors' = distributeError(errors, residual, cursor % processed.width,
                                 cursor \div processed.width, processed.width,
                                 processed.height)
    /\ pc' = "distributed"
    /\ UNCHANGED << imageData, options, resized, processed, colorPalette, result,
                    thrown, quantized, dithered, requantized, color1, color2,
                    distance, reverse, stages, pending, cursor, residual, extraVars >>

\* One pass of the loop body of detectAndPreserveEdges
EdgePixel ==
    /\ pc = "edges"
    /\ \E k \in pending :
           /\ processed' = edgeStep(resized, edgeThreshold, k, processed)
           /\ pending' = pending \ {k}
           /\ pc' = IF pending = {k} THEN "edged" ELSE "edges"
    /\ UNCHANGED << imageData, options, resized, colorPalette, result, thrown,
                    quantized, dithered, requantized, color1, color2, distance,
                    reverse, stages, errors, cursor, residual, extraVars >>

\* One pass of the loop body of applyDithering, for the pixel number cursor
\* in row-major order (y outer, x inner)
DitherPixel ==
    /\ pc = "dithering"
    /\ LET x == cursor % processed.width
           y == cursor \div processed.width
           adjustedPixel == adjustedPixelOf(getRGBA(processed, x, y),
                                           errors[cursor + 1],
                                           options.ditheringStrength)
           st == ditherStep(processed, colorPalette, options.ditheringStrength,
                            [errors |-> errors, output |-> dithered], cursor)
       IN  /\ errors' = st.errors
           /\ dithered' = st.output
           /\ residual' = pixelErrorOf(adjustedPixel,
                                       findClosestColor(adjustedPixel, colorPalette))
    /\ cursor' = cursor + 1
    /\ pc' = IF cursor + 1 = processed.width * processed.height
             THEN "ditheringDone" ELSE "dithering"
    /\ UNCHANGED << imageData, options, resized, processed, colorPalette, result,
                    thrown, quantized, requantized, color1, color2, distance,
                    reverse, stages, pending, extraVars >>

\* rgbToHsl and the two index computations of generatePalette for one pixel
Bin ==
    /\ pc = "bin"
    /\ binned' = binnedPixel(color1)
    /\ pc' = "binned"
    /\ UNCHANGED << imageData, options, resized, processed, colorPalette, result,
                    thrown, quantized, dithered, requantized, color1, color2,
                    distance, reverse, stages, passVars, storeVars, uiVars >>

Generate ==
    /\ pc = "palette"
    /\ colorPalette' = generatePalette(processed, options.colorLimit)
    /\ pc' = "generated"
    /\ UNCHANGED << imageData, options, resized, processed, result, thrown,
                    quantized, dithered, requantized, color1, color2, distance,
                    reverse, stages, passVars, extraVars >>

(***************************************************************************)
(* The statements of convertToPixelArt, one stage each, on the objects in  *)
(* memory.  imageData and options record what the caller handed over.      *)
(***************************************************************************)
ResizeStage ==
    /\ pc = "start"
    /\ IF resizeThrows(memory.buffers[refs.imageData], options.targetWidth)
       THEN /\ pc' = "failed"
            /\ UNCHANGED << memory, refs >>
       ELSE /\ pc' = "resized"
            /\ memory' = resizeImageAt(memory, refs.imageData, options.targetWidth)
            /\ refs' = [refs EXCEPT !.resized = newImageData(memory)]
    /\ UNCHANGED << imageData, options, resized, processed, colorPalette, result,
                    thrown, quantized, dithered, requantized, color1, color2,
                    distance, reverse, stages, passVars, binned, uiVars >>

EdgeStage ==
    /\ pc = "resized"
    /\ pc' = "processed"
    /\ IF options.preserveEdges
       THEN /\ memory' = detectAndPreserveEdgesAt(memory, refs.resized)
            /\ refs' = [refs EXCEPT !.processed = newImageData(memory)]
       ELSE /\ memory' = memory
            /\ refs' = [refs EXCEPT !.processed = refs.resized]
    /\ UNCHANGED << imageData, options, resized, processed, colorPalette, result,
                    thrown, quantized, dithered, requantized, color1, color2,
                    distance, reverse, stages, passVars, binned, uiVars >>

PaletteStage ==
    /\ pc = "processed"
    /\ pc' = "colorPalette"
    /\ IF refs.palette # 0
       THEN /\ memory' = memory
            /\ refs' = [refs EXCEPT !.colorPalette = refs.palette]
       ELSE /\ memory' = generatePaletteAt(memory, refs.processed, options.colorLimit)
            /\ refs' = [refs EXCEPT !.colorPalette = Len(memory.palettes) + 1]
    /\ UNCHANGED << imageData, options, resized, processed, colorPalette, result,
                    thrown, quantized, dithered, requantized, color1, color2,
                    distance, reverse, stages, passVars, binned, uiVars >>

ReduceStage ==
    /\ pc = "colorPalette"
    /\ memory' = reduceColorsAt(memory, refs.processed, refs.colorPalette,
                                options.dithering, options.ditheringStrength)
    /\ IF reduceThrows(memory.buffers[refs.processed],
                       memory.palettes[refs.colorPalette])
       THEN /\ pc' = "failed"
            /\ refs' = refs
       ELSE /\ pc' = "done"
            /\ refs' = [refs EXCEPT !.result = newImageData(memory)]
    /\ UNCHANGED << imageData, options, resized, processed, colorPalette, result,
                    thrown, quantized, dithered, requantized, color1, color2,
                    distance, reverse, stages, passVars, binned, uiVars >>

\* The caller converts the same buffer with the same options once more
ConvertAgain ==
    /\ pc \in {"done", "failed"}
    /\ refs.call = 1
    /\ pc' = "start"
    /\ refs' = refsAtCall(options, 2, << refs.result >>)
    /\ UNCHANGED << memory, imageData, options, resized, processed, colorPalette,
                    result, thrown, quantized, dithered, requantized, color1,
                    color2, distance, reverse, stages, passVars, binned, uiVars >>

(***************************************************************************)
(* formatPalette, and the editor's handler on the text it produced.        *)
(***************************************************************************)
converterVars == << pc, imageData, options, resized, processed, colorPalette,
                    result, thrown, quantized, dithered, requantized, color1,
                    color2, distance, reverse, stages, passVars, binned,
                    storeVars >>

Format ==
    /\ pc = "format"
    /\ pc' = "formatted"
    /\ paletteText' = formatPalette(colorPalette)
    /\ UNCHANGED << imageData, options, resized, processed, colorPalette,
                    result, thrown, quantized, dithered, requantized, color1,
                    color2, distance, reverse, stages, passVars, binned,
                    storeVars, processing, error, currentPalette, settings,
                    source, canvas, handler, dropped, events >>

Reparse ==
    /\ pc = "formatted"
    /\ pc' = "parsed"
    /\ LET edited == editedPalette(paletteText)
       IN  currentPalette' = IF edited.accepted THEN edited.palette
                             ELSE currentPalette
    /\ UNCHANGED << imageData, options, resized, processed, colorPalette,
                    result, thrown, quantized, dithered, requantized, color1,
                    color2, distance, reverse, stages, passVars, binned,
                    storeVars, processing, error, paletteText, settings,
                    source, canvas, handler, dropped, events >>

(***************************************************************************)
(* The component.  A user event is handled when no handler is running.     *)
(***************************************************************************)
\* The effects of the first render: the palette text is formatted, the demo
\* image is drawn and the first render's convertToPixelArt is called
Mount ==
    /\ handler.step = "mount"
    /\ paletteText' = formatPalette(currentPalette)
    /\ source' = DemoImage
    /\ handler' = handlerOf(settings, currentPalette, processing)
    /\ UNCHANGED << converterVars, processing, error, currentPalette, settings,
                    canvas, dropped, events >>

\* The button, disabled while processing
Click ==
    /\ handler.step = "idle"
    /\ events < MaxEvents
    /\ ~processing
    /\ handler' = handlerOf(settings, currentPalette, processing)
    /\ events' = events + 1
    /\ UNCHANGED << converterVars, processing, error, currentPalette,
                    paletteText, settings, source, canvas, dropped >>

\* A slider or a switch: setSettings((prev) => ({...prev, key: value}))
ChangeSetting ==
    /\ handler.step = "idle"
    /\ events < MaxEvents
    /\ settings' \in settingChanges(settings)
    /\ events' = events + 1
    /\ UNCHANGED << converterVars, processing, error, currentPalette,
                    paletteText, source, canvas, handler, dropped >>

\* The editor's onChange, and the effect that formats an accepted palette
EditPaletteText ==
    /\ handler.step = "idle"
    /\ events < MaxEvents
    /\ \E input \in EditTexts :
           LET edited == editedPalette(input)
           IN  IF edited.accepted
               THEN /\ currentPalette' = edited.palette
                    /\ paletteText' = formatPalette(edited.palette)
               ELSE /\ currentPalette' = currentPalette
                    /\ paletteText' = input
    /\ events' = events + 1
    /\ UNCHANGED << converterVars, processing, error, settings, source, canvas,
                    handler, dropped >>

\* handleDrop up to its wait for the image, holding convertToPixelArt of
\* the render in which the drop happened
Drop ==
    /\ handler.step = "idle"
    /\ events < MaxEvents
    /\ dropped = << >>
    /\ \E image \in DropImages :
           dropped' = << [image |-> image,
                          handler |-> handlerOf(settings, currentPalette,
                                                processing)] >>
    /\ events' = events + 1
    /\ UNCHANGED << converterVars, processing, error, currentPalette,
                    paletteText, settings, source, canvas, handler >>

\* img.onload: the image is drawn and the held convertToPixelArt is called
DropLoaded ==
    /\ handler.step = "idle"
    /\ dropped # << >>
    /\ source' = dropped[1].image
    /\ handler' = dropped[1].handler
    /\ dropped' = << >>
    /\ UNCHANGED << converterVars, processing, error, currentPalette,
                    paletteText, settings, canvas, events >>

\* img.onerror: an alert
DropFailed ==
    /\ handler.step = "idle"
    /\ dropped # << >>
    /\ dropped' = << >>
    /\ UNCHANGED << converterVars, processing, error, currentPalette,
                    paletteText, settings, source, canvas, handler, events >>

\* The guard, setProcessing(true) and setError("")
Begin ==
    /\ handler.step = "begin"
    /\ IF handler.processing
       THEN /\ handler' = NoHandler
            /\ UNCHANGED << processing, error >>
       ELSE /\ processing' = TRUE
            /\ error' = ""
            /\ handler' = [handler EXCEPT !.step = "palette", !.entry = canvas]
    /\ UNCHANGED << converterVars, currentPalette, paletteText, settings,
                    source, canvas, dropped, events >>

\* The current palette validated, or a palette generated from the source
\* and made current
ChoosePalette ==
    /\ handler.step = "palette"
    /\ IF handler.settings.useCurrentPalette
       THEN /\ handler' =
                  IF validatePaletteThrows(handler.currentPalette)
                  THEN [handler EXCEPT
                           !.step = "catch",
                           !.thrown = cannotUseMessage(handler.currentPalette)]
                  ELSE [handler EXCEPT !.step = "convert",
                                       !.palette = handler.currentPalette]
            /\ UNCHANGED << currentPalette, paletteText >>
       ELSE LET palette == generatePalette(source, handler.settings.colorLimit)
            IN  /\ handler' = [handler EXCEPT !.step = "convert",
                                              !.palette = palette]
                /\ currentPalette' = palette
                /\ paletteText' = formatPalette(palette)
    /\ UNCHANGED << converterVars, processing, error, settings, source, canvas,
                    dropped, events >>

\* await converter.convertToPixelArt(sourceImageData, {...settings, palette})
RunConverter ==
    /\ handler.step = "convert"
    /\ LET failure == conversionThrown(source, optionsOf(handler.settings,
                                                         handler.palette))
       IN  handler' = [handler EXCEPT !.step = stepAfterConvert(failure),
                                      !.thrown = failure]
    /\ UNCHANGED << converterVars, processing, error, currentPalette,
                    paletteText, settings, source, canvas, dropped, events >>

WriteCanvas ==
    /\ handler.step = "write"
    /\ canvas' = writtenCanvas(source, optionsOf(handler.settings, handler.palette))
    /\ handler' = [handler EXCEPT !.step = "finally"]
    /\ UNCHANGED << converterVars, processing, error, currentPalette,
                    paletteText, settings, source, dropped, events >>

\* catch (error) { setError(error.message) }
Catch ==
    /\ handler.step = "catch"
    /\ error' = handler.thrown
    /\ handler' = [handler EXCEPT !.step = "finally"]
    /\ UNCHANGED << converterVars, processing, currentPalette, paletteText,
                    settings, source, canvas, dropped, events >>

\* finally { setProcessing(false) }
Finally ==
    /\ handler.step = "finally"
    /\ processing' = FALSE
    /\ handler' = NoHandler
    /\ UNCHANGED << converterVars, error, currentPalette, paletteText, settings,
                    source, canvas, dropped, events >>

\* The steps of the handler other than the choice of the palette
HandlerStep == Begin \/ RunConverter \/ WriteCanvas \/ Catch \/ Finally

\* Weak fairness of ChoosePalette, which is enabled exactly when the handler
\* stands at its palette step
PaletteStepTaken ==
    []<>(handler.step # "palette") \/ []<><<ChoosePalette>>_vars

Next == Resize \/ Convert
NextResize == Resize
NextReduce == Quantize \/ Dither \/ Requantize
NextDist == Measure \/ MeasureReverse
NextDistribute == Distribute
NextUniform == Quantize
NextEdges == EdgePixel
NextDither == DitherPixel
NextBin == Bin
NextPalette == Generate
NextFormat == Format \/ Reparse
NextUI ==
    \/ Mount
    \/ Click
    \/ ChangeSetting
    \/ EditPaletteText
    \/ Drop
    \/ DropLoaded
    \/ DropFailed
    \/ Begin
    \/ ChoosePalette
    \/ RunConverter
    \/ WriteCanvas
    \/ Catch
    \/ Finally
NextStore == ResizeStage \/ EdgeStage \/ PaletteStage \/ ReduceStage \/ ConvertAgain

Spec == Init /\ [][Next]_vars
SpecResize == InitResize /\ [][NextResize]_vars
SpecReduce == InitReduce /\ [][NextReduce]_vars
SpecDist == InitDist /\ [][NextDist]_vars
SpecDistribute == InitDistribute /\ [][NextDistribute]_vars
SpecUniform == InitUniform /\ [][NextUniform]_vars
SpecEdges == InitEdges /\ [][NextEdges]_vars
SpecDither == InitDither /\ [][NextDither]_vars
SpecBin == InitBin /\ [][NextBin]_vars
SpecThreshold == InitThreshold /\ [][Next]_vars
SpecPalette == InitPalette /\ [][NextPalette]_vars
SpecStore == InitStore /\ [][NextStore]_vars
SpecFormat == InitFormat /\ [][NextFormat]_vars
SpecUI == InitUI /\ [][NextUI]_vars
\* A handler that has started runs on: nothing in it waits for an event
SpecUIFair ==
    InitUI /\ [][NextUI]_vars /\ WF_vars(HandlerStep) /\ PaletteStepTaken

(***************************************************************************)
(* Properties.                                                             *)
(***************************************************************************)
RGB(p) == <<p.r, p.g, p.b>>
Colours(data) == { RGB(data[k]) : k \in 1..Len(data) }
PaletteColours(palette) == { RGB(palette[i]) : i \in 1..Len(palette) }
paletteSupplied == options.palette # << >>
suppliedPalette == options.palette[1]
validSource == imageData.width >= 1 /\ imageData.height >= 1

\* h is H * tw / W rounded to the nearest integer, a half upwards (W, tw > 0)
IsScaledHeight(h, W, H, tw) ==
    2 * h * W <= 2 * H * tw + W /\ 2 * H * tw + W < 2 * (h + 1) * W

OutputWithinPalette ==
    (/\ pc = "done"
     /\ ~validatePaletteThrows(colorPalette)
     /\ options.dithering => options.ditheringStrength \in 0..10) =>
        /\ Colours(result.data) \subseteq PaletteColours(colorPalette)
        /\ Cardinality(Colours(result.data)) <= Len(colorPalette)
        /\ ~paletteSupplied =>
               Cardinality(Colours(result.data)) <= options.colorLimit

\* a dithered conversion of more than two colours under a generated palette
\* of two entries, both of them used
OutputWithinPaletteWitness ==
    /\ pc = "done"
    /\ options.dithering /\ options.ditheringStrength = 3
    /\ ~paletteSupplied /\ options.colorLimit = 2
    /\ Cardinality(Colours(processed.data)) > 2
    /\ Cardinality(Colours(result.data)) = 2

\* C3: on a buffer of at least one pixel and a colorLimit N >= 1,
\* generatePalette returns between 1 and N entries, each with r, g, b in
\* 0..255 and a = 255.
GeneratedPaletteBounded ==
    (pc = "done" /\ ~paletteSupplied /\ options.colorLimit >= 1) =>
        /\ Len(colorPalette) >= 1
        /\ Len(colorPalette) <= options.colorLimit
        /\ \A i \in 1..Len(colorPalette) :
               /\ colorPalette[i].r \in 0..255
               /\ colorPalette[i].g \in 0..255
               /\ colorPalette[i].b \in 0..255
               /\ colorPalette[i].a = 255

\* more distinct colours than the limit: the palette is cut to the limit
GeneratedPaletteBoundedWitness ==
    /\ pc = "done"
    /\ ~paletteSupplied /\ options.colorLimit = 2
    /\ Cardinality(Colours(processed.data)) > 2
    /\ Len(colorPalette) = 2

\* C4: with edge preservation disabled, the alpha of every output pixel is
\* the alpha of the source pixel it was sampled from (resized holds the
\* sampled pixels, alpha included).
AlphaPreserved ==
    (pc = "done" /\ ~options.preserveEdges /\ ~validatePaletteThrows(colorPalette)) =>
        \A k \in 1..Len(result.data) : result.data[k].a = resized.data[k].a

\* C5: applyDithering with strength 0 returns the buffer quantizeColors
\* returns on the same buffer and palette.
ZeroStrengthIsQuantize ==
    (pc \in {"dithered", "requantized"} /\ options.ditheringStrength = 0) =>
        dithered = quantized

\* a buffer with a colour outside the palette, so that the pass has an error
\* to distribute
ZeroStrengthIsQuantizeWitness ==
    /\ pc = "dithered"
    /\ options.ditheringStrength = 0
    /\ ~(Colours(processed.data) \subseteq PaletteColours(colorPalette))
    /\ Len(dithered.data) = 6
    /\ dithered = quantized

ClampedByte(v) == IF v < 0 THEN 0 ELSE IF v > 255 THEN 255 ELSE v

\* C7 as stated: a conversion given an empty palette or one with a channel
\* outside 0..255 fails before resize, edge preservation or colour reduction
\* runs, and returns no buffer.
InvalidPaletteRejectedFirst ==
    (paletteSupplied /\ validatePaletteThrows(suppliedPalette)) =>
        /\ pc \in {"start", "failed"}
        /\ resized = NoImage
        /\ result = NoImage

\* C7 amended: convertToPixelArt does not validate the palette.  With an
\* empty palette the resize and the edge pass run and the call fails with a
\* TypeError at colour reduction, returning no buffer; with channels outside
\* 0..255 the call completes and every output pixel is a palette entry with
\* its channels clamped to 0..255.
InvalidPaletteNotRejected ==
    (/\ paletteSupplied /\ validatePaletteThrows(suppliedPalette)
     /\ pc \in {"done", "failed"} /\ resized # NoImage) =>
        /\ resized.width = options.targetWidth
        /\ processed.width = options.targetWidth
        /\ colorPalette = suppliedPalette
        /\ IF suppliedPalette = << >>
           THEN pc = "failed" /\ thrown = "TypeError" /\ result = NoImage
           ELSE /\ pc = "done"
                /\ Len(result.data) = Len(processed.data)
                /\ \A k \in 1..Len(result.data) :
                       \E i \in 1..Len(suppliedPalette) :
                           /\ result.data[k].r = ClampedByte(suppliedPalette[i].r)
                           /\ result.data[k].g = ClampedByte(suppliedPalette[i].g)
                           /\ result.data[k].b = ClampedByte(suppliedPalette[i].b)

\* the palette with the entries (300,0,0) and (0,-20,0): the conversion
\* completes and holds both (255,0,0) and (0,0,0)
InvalidPaletteNotRejectedWitness ==
    /\ pc = "done"
    /\ paletteSupplied /\ suppliedPalette = OutOfRangePalette
    /\ Colours(result.data) = { <<255, 0, 0>>, <<0, 0, 0>> }

\* a setting the call reads lies outside the range of its slider
OutOfRangeConfig ==
    \/ options.targetWidth \notin 8..256
    \/ ~paletteSupplied /\ options.colorLimit \notin 2..64
    \/ options.dithering /\ options.ditheringStrength \notin 0..10

ScaledHeightNotPositive ==
    IF imageData.width > 0
    THEN 2 * imageData.height * options.targetWidth + imageData.width
             < 2 * imageData.width
    ELSE IF imageData.width < 0
    THEN -(2 * imageData.height * options.targetWidth) - imageData.width
             < -(2 * imageData.width)
    ELSE TRUE

Penalised(c) == c.r = c.g /\ c.g = c.b /\ c.r # 0
WeightedSquares(a, b) ==
    WeightR * (a.r - b.r) * (a.r - b.r) + WeightG * (a.g - b.g) * (a.g - b.g)
        + WeightB * (a.b - b.b) * (a.b - b.b)
ExpectedDistance(a, b) ==
    LET sum == WeightedSquares(a, b)
        factor == IF Penalised(b) THEN 225 ELSE 100
        low == (sum % Base) * factor
    IN  << (sum \div Base) * factor + low \div Base, low % Base >>
HighLow(d) ==
    << Limb(d.n, 2) + Base * Limb(d.n, 3), Limb(d.n, 1) >>

\* C10: the square of colorDistance(a, b) is 0.299 dr^2 + 0.587 dg^2 +
\* 0.114 db^2, times 2.25 exactly when b has r = g = b and is not (0,0,0),
\* whatever a is; colorDistance(c, c) = 0; colorDistance(a, b) =
\* colorDistance(b, a) when a and b are both or neither penalised
\* candidates; and the distances between (255,0,0) and (100,100,100) differ
\* with the order.
ColorDistanceFormula ==
    /\ pc \in {"measured", "reversed"} =>
           /\ distance.e = 0 /\ Len(distance.n) <= 3
           /\ HighLow(distance) = ExpectedDistance(color1, color2)
           /\ color1 = color2 => distance = NumInt(0)
    /\ pc = "reversed" =>
           /\ HighLow(reverse) = ExpectedDistance(color2, color1)
           /\ Penalised(color1) = Penalised(color2) => distance = reverse
           /\ (color1 = Red /\ color2 = Gray) => distance # reverse

\* (255,0,0) against the candidate (100,100,100), and the reverse
ColorDistanceFormulaWitness ==
    /\ pc = "reversed"
    /\ color1 = Red /\ color2 = Gray
    /\ HighLow(distance) = << 319353, 1875 >>
    /\ HighLow(reverse) = << 141934, 7500 >>

\* C20: convertToPixelArt invokes resizeImage, then detectAndPreserveEdges
\* only when preserveEdges is true, then generatePalette if and only if no
\* palette is supplied, then exactly one of applyDithering (dithering true)
\* and quantizeColors (dithering false); the generated palette is that of
\* the buffer the resize and edge stages produced, and a supplied palette is
\* used as given.
StagesInOrder ==
    pc \in {"done", "failed"} =>
        /\ stages[1] = "resizeImage"
        /\ thrown = "IndexSizeError" => stages = << "resizeImage" >>
        /\ thrown # "IndexSizeError" =>
               /\ \A i \in 2..Len(stages) : stages[i] # "resizeImage"
               /\ stages[Len(stages)] =
                      (IF options.dithering THEN "applyDithering"
                       ELSE "quantizeColors")
               /\ \A i \in 1..(Len(stages) - 1) :
                      stages[i] \notin {"applyDithering", "quantizeColors"}
               /\ options.preserveEdges <=> stages[2] = "detectAndPreserveEdges"
               /\ ~paletteSupplied <=>
                      stages[Len(stages) - 1] = "generatePalette"
               /\ Len(stages) = 2 + (IF options.preserveEdges THEN 1 ELSE 0)
                                  + (IF paletteSupplied THEN 0 ELSE 1)
               /\ options.preserveEdges =>
                      processed = detectAndPreserveEdges(resized, 100)
               /\ ~options.preserveEdges => processed = resized
               /\ paletteSupplied => colorPalette = suppliedPalette
               /\ ~paletteSupplied =>
                      colorPalette = generatePalette(processed, options.colorLimit)

\* all four stages ran, the edge pass changed the buffer and with it the
\* palette
StagesInOrderWitness ==
    /\ pc = "done"
    /\ stages = << "resizeImage", "detectAndPreserveEdges", "generatePalette",
                   "applyDithering" >>
    /\ processed # resized
    /\ colorPalette # generatePalette(resized, options.colorLimit)

\* the pair a precedes the pair b
PairLess(a, b) == a[1] < b[1] \/ (a[1] = b[1] /\ a[2] < b[2])
\* i is the first index of P at the least distance from the pixel c
IsFirstClosest(c, P, i) ==
    /\ \A j \in 1..Len(P) :
           ~PairLess(ExpectedDistance(c, P[j]), ExpectedDistance(c, P[i]))
    /\ \A j \in 1..(i - 1) :
           PairLess(ExpectedDistance(c, P[i]), ExpectedDistance(c, P[j]))

\* C11: findClosestColor(c, P) returns an entry of P at the least
\* colorDistance from c, and of several such entries the one with the
\* smallest index; seen on every pixel quantizeColors writes.
ClosestIsFirstMinimal ==
    pc \in {"quantized", "dithered", "requantized"} =>
        \A k \in 1..Len(processed.data) :
            \E i \in 1..Len(colorPalette) :
                /\ IsFirstClosest(processed.data[k], colorPalette, i)
                /\ quantized.data[k] = colorPalette[i]

\* a pixel at the same least distance from two entries of different colour:
\* the earlier one is written
ClosestIsFirstMinimalWitness ==
    /\ pc = "quantized"
    /\ \E k \in 1..Len(processed.data) :
           \E i, j \in 1..Len(colorPalette) :
               /\ i < j
               /\ colorPalette[i] # colorPalette[j]
               /\ ExpectedDistance(processed.data[k], colorPalette[i])
                      = ExpectedDistance(processed.data[k], colorPalette[j])
               /\ IsFirstClosest(processed.data[k], colorPalette, i)
               /\ quantized.data[k] = colorPalette[i]
               /\ RGB(colorPalette[i]) # RGB(colorPalette[j])

\* the cell of the grid at column x of row y
Cell(grid, x, y) == grid[y * processed.width + x + 1]
ZeroGrid == [k \in 1..(processed.width * processed.height) |-> ZeroError]
R16 == [r |-> NumInt(16), g |-> NumInt(0), b |-> NumInt(0)]
IsShape(w, h) == processed.width = w /\ processed.height = h
\* the r channels of the grid, as integers where they are integers
RedOf(grid, x, y, v) == NumEq(Cell(grid, x, y).r, NumInt(v))

\* C12 as stated: from an all-zero 3x3 grid, the residual (16,0,0) of the
\* pixel (0,0) leaves errors[0][1].r = 7, errors[1][0].r = 3,
\* errors[1][1].r = 5 and errors[1][2].r = 1.
WeightCheckAsStated ==
    [][(/\ pc = "distribute" /\ IsShape(3, 3) /\ cursor = 0
        /\ residual = R16 /\ errors = ZeroGrid)
       => (/\ RedOf(errors', 1, 0, 7) /\ RedOf(errors', 0, 1, 3)
           /\ RedOf(errors', 1, 1, 5) /\ RedOf(errors', 2, 1, 1))]_vars

\* C12: from an all-zero 3x3 grid, the residual (16,0,0) of the pixel (0,0)
\* leaves errors[0][1].r = 7, errors[1][0].r = 5, errors[1][1].r = 1 and
\* every other value 0, the share of (-1,1) being dropped; the residual of
\* the pixel (1,0) leaves errors[0][2].r = 7, errors[1][0].r = 3,
\* errors[1][1].r = 5, errors[1][2].r = 1 and every other value 0.
WeightCheck ==
    [][(/\ pc = "distribute" /\ IsShape(3, 3) /\ residual = R16
        /\ errors = ZeroGrid)
       => /\ \A k \in 1..9 : NumSign(errors'[k].g) = 0 /\ NumSign(errors'[k].b) = 0
          /\ cursor = 0 =>
                 /\ RedOf(errors', 1, 0, 7) /\ RedOf(errors', 0, 1, 5)
                 /\ RedOf(errors', 1, 1, 1)
                 /\ \A k \in (1..9) \ {2, 4, 5} : NumSign(errors'[k].r) = 0
          /\ cursor = 1 =>
                 /\ RedOf(errors', 2, 0, 7) /\ RedOf(errors', 0, 1, 3)
                 /\ RedOf(errors', 1, 1, 5) /\ RedOf(errors', 2, 1, 1)
                 /\ \A k \in (1..9) \ {3, 4, 5, 6} : NumSign(errors'[k].r) = 0]_vars

\* the grid after the residual (16,0,0) of the pixel (0,0) of a 3x3 buffer
WeightCheckWitness ==
    /\ pc = "distributed" /\ IsShape(3, 3) /\ cursor = 0 /\ residual = R16
    /\ RedOf(errors, 1, 0, 7) /\ RedOf(errors, 0, 1, 5) /\ RedOf(errors, 1, 1, 1)
    /\ \A k \in (1..9) \ {2, 4, 5} : errors[k] = ZeroError

\* the weight, in sixteenths, the pixel (x, y) gives the cell (cx, cy)
TargetWeight(x, y, cx, cy) ==
    IF cx = x + 1 /\ cy = y THEN 7
    ELSE IF cx = x - 1 /\ cy = y + 1 THEN 3
    ELSE IF cx = x /\ cy = y + 1 THEN 5
    ELSE IF cx = x + 1 /\ cy = y + 1 THEN 1
    ELSE 0
AllTargetsInBounds(x, y, w, h) == x - 1 >= 0 /\ x + 1 < w /\ y + 1 < h
InBoundsWeight(x, y, w, h) ==
    (IF x + 1 < w THEN 7 ELSE 0) + (IF x - 1 >= 0 /\ y + 1 < h THEN 3 ELSE 0)
        + (IF y + 1 < h THEN 5 ELSE 0) + (IF x + 1 < w /\ y + 1 < h THEN 1 ELSE 0)
ErrorSub(a, b) ==
    [r |-> NumSub(a.r, b.r), g |-> NumSub(a.g, b.g), b |-> NumSub(a.b, b.b)]
ErrorAdd(a, b) ==
    [r |-> NumAdd(a.r, b.r), g |-> NumAdd(a.g, b.g), b |-> NumAdd(a.b, b.b)]
ErrorEq(a, b) == NumEq(a.r, b.r) /\ NumEq(a.g, b.g) /\ NumEq(a.b, b.b)
ErrorShare(e, weight) ==
    [r |-> NumFraction(e.r, weight, 16), g |-> NumFraction(e.g, weight, 16),
     b |-> NumFraction(e.b, weight, 16)]
\* what the cells k.. of the grid after hold more than those of the grid
\* before
RECURSIVE TotalAdded(_, _, _)
TotalAdded(before, after, k) ==
    IF k > Len(before) THEN ZeroError
    ELSE ErrorAdd(ErrorSub(after[k], before[k]), TotalAdded(before, after, k + 1))
SmallerMagnitude(a, b) == NumLess(NumMul(a, a), NumMul(b, b))
SquaredNorm(e) == NumAdd(NumAdd(NumMul(e.r, e.r), NumMul(e.g, e.g)), NumMul(e.b, e.b))
Channels(e) == << e.r, e.g, e.b >>
\* every cell received its weight of the residual and nothing else
SharesAdded(before, after, x, y) ==
    \A cx \in 0..(processed.width - 1), cy \in 0..(processed.height - 1) :
        ErrorEq(ErrorSub(Cell(after, cx, cy), Cell(before, cx, cy)),
                ErrorShare(residual, TargetWeight(x, y, cx, cy)))

\* C19 as stated: each in-bounds target receives its share, an
\* out-of-bounds target none and no other cell any, and the total added is
\* the residual exactly when all four targets are in bounds, strictly
\* smaller in magnitude otherwise.
SharesDroppedAsStated ==
    [][pc = "distribute" =>
        LET x == cursor % processed.width
            y == cursor \div processed.width
            total == TotalAdded(errors, errors', 1)
        IN  /\ SharesAdded(errors, errors', x, y)
            /\ ErrorEq(total, residual)
                   <=> AllTargetsInBounds(x, y, processed.width, processed.height)
            /\ ~AllTargetsInBounds(x, y, processed.width, processed.height)
                   => NumLess(SquaredNorm(total), SquaredNorm(residual))]_vars

\* C19: distributeError adds 7/16 of the residual to (x+1,y), 3/16 to
\* (x-1,y+1), 5/16 to (x,y+1) and 1/16 to (x+1,y+1), each only when the
\* target is inside the grid, and changes no other cell (no wraparound); the
\* total added is the residual times the in-bounds weights, which is the
\* residual when all four targets are in bounds and otherwise strictly
\* smaller in magnitude in every channel where the residual is not zero,
\* and zero where it is zero.
SharesDropped ==
    [][pc = "distribute" =>
        LET x == cursor % processed.width
            y == cursor \div processed.width
            w == processed.width
            h == processed.height
            total == TotalAdded(errors, errors', 1)
        IN  /\ SharesAdded(errors, errors', x, y)
            /\ ErrorEq(total, ErrorShare(residual, InBoundsWeight(x, y, w, h)))
            /\ AllTargetsInBounds(x, y, w, h) <=> InBoundsWeight(x, y, w, h) = 16
            /\ AllTargetsInBounds(x, y, w, h) => ErrorEq(total, residual)
            /\ ~AllTargetsInBounds(x, y, w, h) =>
                   \A c \in 1..3 :
                       IF NumSign(Channels(residual)[c]) = 0
                       THEN NumSign(Channels(total)[c]) = 0
                       ELSE SmallerMagnitude(Channels(total)[c],
                                             Channels(residual)[c])]_vars

\* the residual (-16,8,1) of the last pixel of row 0 of a 3x3 zero grid: 3/16
\* and 5/16 went below, and the first cell of row 1 received nothing
SharesDroppedWitness ==
    /\ pc = "distributed" /\ IsShape(3, 3) /\ cursor = 2
    /\ residual = [r |-> NumInt(-16), g |-> NumInt(8), b |-> NumInt(1)]
    /\ Cell(errors, 0, 1) = ZeroError
    /\ RedOf(errors, 1, 1, -3) /\ RedOf(errors, 2, 1, -5)
    /\ \A k \in 1..4 : errors[k] = ZeroError

\* C13: for a buffer B with width >= 1 and height >= 1, resizeImage(B,
\* B.width) returns a buffer of B's width and height with B's RGBA value at
\* every coordinate.
NoOpResizeIsIdentity ==
    (pc = "resized" /\ validSource /\ options.targetWidth = imageData.width) =>
        /\ resized.width = imageData.width
        /\ resized.height = imageData.height
        /\ \A x \in 0..(imageData.width - 1), y \in 0..(imageData.height - 1) :
               getRGBA(resized, x, y) = imageData.data[y * imageData.width + x + 1]
        /\ resized = imageData

\* a 3x2 buffer of six different pixels, a transparent and a half-transparent
\* one among them, resized to width 3
NoOpResizeIsIdentityWitness ==
    /\ pc = "resized"
    /\ imageData.width = 3 /\ imageData.height = 2
    /\ options.targetWidth = 3
    /\ Cardinality({ imageData.data[k] : k \in 1..6 }) = 6
    /\ \E k \in 1..6 : imageData.data[k].a = 128
    /\ resized = imageData

\* the buffer handed to palette generation holds one RGB colour
OneColour == Cardinality(Colours(processed.data)) = 1
TheColour == RGB(processed.data[1])

\* C14: for a non-empty buffer whose pixels all have the RGB colour c and a
\* colorLimit >= 1, generatePalette returns exactly one entry, c with alpha
\* 255, and quantizeColors and applyDithering (strength in [0,1]) with that
\* palette return a buffer of the same size with c at every pixel, alpha 255.
OneColourUnchanged ==
    (/\ pc = "done" /\ ~paletteSupplied /\ OneColour
     /\ options.colorLimit >= 1 /\ options.ditheringStrength <= 10) =>
        /\ colorPalette = generatePalette(processed, options.colorLimit)
        /\ Len(colorPalette) = 1
        /\ RGB(colorPalette[1]) = TheColour
        /\ colorPalette[1].a = 255
        /\ result.width = processed.width /\ result.height = processed.height
        /\ \A k \in 1..Len(result.data) :
               RGB(result.data[k]) = RGB(processed.data[k]) /\ result.data[k].a = 255

\* an all-red buffer dithered with the palette generated from it
OneColourUnchangedWitness ==
    /\ pc = "done" /\ ~paletteSupplied /\ OneColour
    /\ options.dithering /\ options.ditheringStrength = 3
    /\ Len(processed.data) >= 8
    /\ TheColour = RGB(Red)
    /\ colorPalette = << Red >>
    /\ \A k \in 1..Len(result.data) : result.data[k] = Red

\* C15: quantizing a buffer whose every pixel is (10,10,10) against the
\* palette [(0,0,0), (255,0,0)] writes (0,0,0) to every pixel of an output
\* of the same size, for the 8x8 buffer and for every other size.
NearBlackGoesBlack ==
    (/\ pc = "quantized"
     /\ \A k \in 1..Len(processed.data) : RGB(processed.data[k]) = <<10, 10, 10>>
     /\ PaletteColours(colorPalette) = { <<0, 0, 0>>, <<255, 0, 0>> }) =>
        /\ quantized.width = processed.width
        /\ quantized.height = processed.height
        /\ Len(quantized.data) = processed.width * processed.height
        /\ \A k \in 1..Len(quantized.data) : RGB(quantized.data[k]) = <<0, 0, 0>>

\* the 8x8 buffer against [(0,0,0), (255,0,0)]
NearBlackGoesBlackWitness ==
    /\ pc = "quantized"
    /\ processed.width = 8 /\ processed.height = 8
    /\ \A k \in 1..64 : processed.data[k] = NearBlack
    /\ colorPalette = << Black, Red >>
    /\ \A k \in 1..64 : quantized.data[k] = Black

\* C16: the value the edge pass writes for a pixel depends only on the
\* input buffer, never on a value already written: in whatever order the
\* pixels are processed, every processed pixel holds the value the row-major
\* pass of detectAndPreserveEdges gives it and every other pixel still holds
\* its input value, so the finished buffer is the same for every order.
EdgePassOrderFree ==
    pc \in {"edges", "edged"} =>
        /\ processed.width = resized.width /\ processed.height = resized.height
        /\ \A k \in 0..(Len(resized.data) - 1) :
               processed.data[k + 1] =
                   IF k \in pending THEN resized.data[k + 1]
                   ELSE detectAndPreserveEdges(resized, edgeThreshold).data[k + 1]
        /\ pc = "edged" =>
               processed = detectAndPreserveEdges(resized, edgeThreshold)

\* a pass that took the last pixel first and changed it, a changed neighbour
\* of it still waiting
EdgePassOrderFreeWitness ==
    /\ pc = "edges"
    /\ Len(resized.data) = 9
    /\ 8 \notin pending /\ 7 \in pending /\ 0 \in pending
    /\ processed.data[9] # resized.data[9]
    /\ detectAndPreserveEdges(resized, edgeThreshold).data[8] # resized.data[8]

\* the in-bounds neighbours of (x, y), the centre excluded, as coordinates
NeighbourCells(x, y) ==
    { c \in (0..(resized.width - 1)) \X (0..(resized.height - 1)) :
          /\ Abs(c[1] - x) <= 1 /\ Abs(c[2] - y) <= 1
          /\ c # <<x, y>> }
InputAt(c) == resized.data[c[2] * resized.width + c[1] + 1]
OutputAt(c) == processed.data[c[2] * resized.width + c[1] + 1]
\* luma in thousandths
LumaOf(p) == 299 * p.r + 587 * p.g + 114 * p.b
IsEdge(x, y) ==
    \E c \in NeighbourCells(x, y) :
        Abs(LumaOf(InputAt(<<x, y>>)) - LumaOf(InputAt(c))) > 1000 * edgeThreshold
ChannelOf(p, ch) ==
    CASE ch = "r" -> p.r [] ch = "g" -> p.g [] ch = "b" -> p.b [] ch = "a" -> p.a
RECURSIVE ChannelSum(_, _)
ChannelSum(cells, ch) ==
    IF cells = {} THEN 0
    ELSE LET c == CHOOSE c \in cells : TRUE
         IN  ChannelOf(InputAt(c), ch) + ChannelSum(cells \ {c}, ch)
\* m is sum / n rounded to the nearest integer, a half going up
IsRoundedMean(m, sum, n) == 2 * m * n <= 2 * sum + n /\ 2 * sum + n < 2 * (m + 1) * n

ErrorOnlyAhead ==
    [][pc = "dithering" =>
        /\ cursor' = cursor + 1
        /\ \A j \in 1..(cursor + 1) : ErrorEq(errors'[j], errors[j])
        /\ \A j \in 1..Len(errors) :
               ~ErrorEq(errors'[j], errors[j]) =>
                   /\ j > cursor + 1
                   /\ TargetWeight(cursor % processed.width,
                                   cursor \div processed.width,
                                   (j - 1) % processed.width,
                                   (j - 1) \div processed.width) > 0
        /\ \A j \in 1..Len(dithered.data) :
               j # cursor + 1 => dithered'.data[j] = dithered.data[j]
        /\ pc' = "ditheringDone" =>
               dithered' = applyDithering(processed, colorPalette,
                                          options.ditheringStrength)]_vars

\* a pass in its second row: the pixel just visited left a residual, a
\* visited pixel of the first row and a pixel still to come hold error
ErrorOnlyAheadWitness ==
    /\ pc = "dithering"
    /\ processed.width = 3 /\ processed.height = 2
    /\ cursor = 4
    /\ options.ditheringStrength = 3
    /\ ~ErrorEq(residual, ZeroError)
    /\ ~ErrorEq(errors[2], ZeroError)
    /\ ~ErrorEq(errors[4], ZeroError)
    /\ ~ErrorEq(errors[5], ZeroError)
    /\ ~ErrorEq(errors[6], ZeroError)

\* the fraction q lies in [0, 1)
BelowOne(q) == q[2] > 0 /\ q[1] >= 0 /\ q[1] < q[2]
Achromatic(c) == c.r = c.g /\ c.g = c.b

\* C21: for an 8-bit RGB triple the hue h of rgbToHsl is below 1 and the hue
\* bin floor(h * 12) of generatePalette lies in 0..11, and an achromatic
\* triple has h = 0, s = 0 and bin 0.
HueBinInRange ==
    pc = "binned" =>
        /\ BelowOne(binned.pixel.h)
        /\ binned.hueBin \in 0..11
        /\ 12 * binned.pixel.h[1] >= binned.hueBin * binned.pixel.h[2]
        /\ 12 * binned.pixel.h[1] < (binned.hueBin + 1) * binned.pixel.h[2]
        /\ Achromatic(color1) =>
               /\ binned.pixel.h[1] = 0 /\ binned.pixel.s[1] = 0
               /\ binned.hueBin = 0

\* (255,0,1), the hue closest to a full turn, falls in bin 11
HueBinInRangeWitness ==
    /\ pc = "binned"
    /\ color1 = [r |-> 255, g |-> 0, b |-> 1, a |-> 255]
    /\ binned.hueBin = 11
    /\ binned.pixel.h = << 1529, 1530 >>

\* C22: for an 8-bit RGB triple the saturation index floor(s * 4) and the
\* lightness index floor(l * 4) of the cell key both lie in 0..3.
CellKeyInGrid ==
    pc = "binned" => binned.key[1] \in 0..3 /\ binned.key[2] \in 0..3

\* the cell of every pixel of the buffer handed to generatePalette, as
\* <<hue bin, key>>
PixelCell(k) ==
    << binnedPixel(processed.data[k]).hueBin, binnedPixel(processed.data[k]).key >>
CellTable == [k \in 1..Len(processed.data) |-> PixelCell(k)] \o << >>
\* the cells of a table, the pixels of a cell, its count and its rounded
\* mean
CellsIn(at) == { at[k] : k \in 1..Len(at) }
BinsIn(at) == { at[k][1] : k \in 1..Len(at) }
CellsOfBin(at, bin) == { c \in CellsIn(at) : c[1] = bin }
PixelsOf(at, cell) == { k \in 1..Len(at) : at[k] = cell }
CountOf(at, cell) == Cardinality(PixelsOf(at, cell))
RECURSIVE PixelSum(_, _)
PixelSum(ks, ch) ==
    IF ks = {} THEN 0
    ELSE LET k == CHOOSE k \in ks : TRUE
         IN  ChannelOf(processed.data[k], ch) + PixelSum(ks \ {k}, ch)
IsMeanOf(entry, at, cell) ==
    /\ entry.a = 255
    /\ \A ch \in {"r", "g", "b"} :
           IsRoundedMean(ChannelOf(entry, ch), PixelSum(PixelsOf(at, cell), ch),
                         CountOf(at, cell))
ColoursPerBin == (options.colorLimit + 11) \div 12
RECURSIVE KeptTotal(_, _)
KeptTotal(at, bins) ==
    IF bins = {} THEN 0
    ELSE LET bin == CHOOSE bin \in bins : TRUE
         IN  Min(Cardinality(CellsOfBin(at, bin)), ColoursPerBin)
                 + KeptTotal(at, bins \ {bin})
\* every non-empty hue bin of the table has the mean of one of its cells in
\* the palette
HuesKept(at) ==
    CASE Evaluated(at) ->
        \A bin \in BinsIn(at) :
            \E i \in 1..Len(colorPalette) :
                \E cell \in CellsOfBin(at, bin) : IsMeanOf(colorPalette[i], at, cell)
\* cellOf[i] is the cell entry i of the palette is the mean of, count[c] the
\* count of the cell c
TopCellsBy(at, cellOf, count) ==
    CASE Evaluated(cellOf) /\ Evaluated(count) ->
        LET entryCells == { cellOf[i] : i \in 1..Len(colorPalette) }
        IN  /\ Len(colorPalette) = Min(options.colorLimit, KeptTotal(at, BinsIn(at)))
            /\ \A i \in 1..Len(colorPalette) :
                   /\ IsMeanOf(colorPalette[i], at, cellOf[i])
                   /\ Cardinality({ c \in CellsOfBin(at, cellOf[i][1]) :
                                      count[c] > count[cellOf[i]] }) < ColoursPerBin
            /\ Cardinality(entryCells) = Len(colorPalette)
            /\ \A i \in 1..(Len(colorPalette) - 1) :
                   count[cellOf[i]] >= count[cellOf[i + 1]]
            /\ \A bin \in BinsIn(at) :
                   Cardinality(CellsOfBin(at, bin) \cap entryCells) <= ColoursPerBin
            /\ \A cell \in CellsIn(at) \ entryCells :
                   \/ Cardinality({ c \in CellsOfBin(at, cell[1]) :
                                      count[c] >= count[cell] }) > ColoursPerBin
                   \/ \A i \in 1..Len(colorPalette) : count[cellOf[i]] >= count[cell]
TopCells(at) ==
    CASE Evaluated(at) ->
        /\ \A i \in 1..Len(colorPalette) :
               \E cell \in CellsIn(at) : IsMeanOf(colorPalette[i], at, cell)
        /\ TopCellsBy(at,
                      [i \in 1..Len(colorPalette) |->
                          CHOOSE cell \in CellsIn(at) :
                              IsMeanOf(colorPalette[i], at, cell)] \o << >>,
                      [c \in CellsIn(at) |-> CountOf(at, c)])

\* C23: when colorLimit is at least the number of non-empty hue bins of the
\* image, the palette generatePalette returns holds, for every non-empty hue
\* bin, at least one colour that is the mean of a cell of that bin.
EveryHueKept ==
    (pc = "generated" /\ options.colorLimit >= Cardinality(BinsIn(CellTable))) =>
        HuesKept(CellTable)

\* C24: every entry of the palette generatePalette returns is the rounded
\* per-channel mean of one cell, alpha 255, no cell twice; the cell is among
\* the ceil(colorLimit / 12) cells of its hue bin with the largest counts;
\* the entries are in non-increasing order of count, and a pooled cell
\* that was cut has no larger count than any entry; the palette has
\* min(colorLimit, sum over bins of min(cells in bin, ceil(colorLimit / 12)))
\* entries.
PaletteIsTopCells ==
    (pc = "generated" /\ options.colorLimit >= 1) => TopCells(CellTable)

\* fifteen cells in eight hue bins and colorLimit 13: two cells a bin are
\* pooled and the pool is cut; the cell of (100,0,0) and (103,0,0), the
\* largest, comes first with its mean 101.5 rounded to 102
PaletteIsTopCellsWitness ==
    /\ pc = "generated"
    /\ options.colorLimit = 13
    /\ Cardinality(CellsIn(CellTable)) = 15 /\ Cardinality(BinsIn(CellTable)) = 8
    /\ Len(processed.data) = 16
    /\ Len(colorPalette) = 13
    /\ colorPalette[1] = Opaque(102, 0, 0)

\* the edgeThreshold of the options record of the call, 100 when it gives
\* none
CallThreshold ==
    IF options.edgeThreshold = << >> THEN 100 ELSE options.edgeThreshold[1]

\* C25: the edge pass of a conversion classifies edges with the
\* edgeThreshold of that call's options record, 100 when the record gives
\* none.
OwnThresholdApplied ==
    (pc = "done" /\ options.preserveEdges) =>
        processed = detectAndPreserveEdges(resized, CallThreshold)

(***************************************************************************)
(* Frame of the stages.                                                    *)
(***************************************************************************)
ObjectsKept(before, after) ==
    /\ Len(after) >= Len(before)
    /\ \A i \in 1..Len(before) : after[i] = before[i]

SameOutcome ==
    IF refs'.first = << 0 >>
    THEN pc' = "failed"
    ELSE /\ pc' = "done"
         /\ memory'.buffers[refs'.result] = memory'.buffers[refs'.first[1]]

StageFrame ==
    /\ ObjectsKept(memory.buffers, memory'.buffers)
    /\ ObjectsKept(memory.palettes, memory'.palettes)
    /\ memory'.options = memory.options
    /\ memory'.buffers[refs'.imageData] = imageData
    /\ options.palette # << >> => memory'.palettes[refs'.palette] = options.palette[1]
    /\ (refs'.call = 2 /\ pc' \in {"done", "failed"}) => SameOutcome

\* C26: no stage of a conversion changes a buffer, a palette or the converter's options that existed before it ran, the caller's buffer and palette stay as handed over, and a second conversion of the same inputs ends as the first did, with an equal output buffer.
StagesKeepInputs == [][StageFrame]_vars

StagesKeepInputsWitness ==
    /\ pc = "done"
    /\ refs.call = 2
    /\ options.preserveEdges
    /\ options.dithering
    /\ options.palette = << ValidPalette >>
    /\ Len(memory.buffers) = 7
    /\ memory.buffers[refs.result] # memory.buffers[refs.processed]
    /\ memory.buffers[refs.processed] # memory.buffers[refs.resized]
    /\ memory.buffers[refs.resized] # imageData

(***************************************************************************)
(* The palette text.                                                       *)
(***************************************************************************)
\* C29: the editor's handler applied to formatPalette(p) accepts the text and yields p: the same length, the same order and the same (r, g, b, 255) entries.
FormatRoundTrip ==
    pc = "parsed" => /\ editedPalette(paletteText).accepted
                     /\ Len(currentPalette) = Len(colorPalette)
                     /\ \A i \in 1..Len(colorPalette) :
                            currentPalette[i] = colorPalette[i]

FormatRoundTripWitness ==
    /\ pc = "parsed"
    /\ colorPalette = << [r |-> 255, g |-> 10, b |-> 9, a |-> 255], Black,
                         [r |-> 255, g |-> 10, b |-> 9, a |-> 255] >>
    /\ currentPalette = colorPalette
    /\ Len(paletteText) = 35
    /\ paletteText[2] = "\n"
    /\ paletteText[34] = "\n"

(***************************************************************************)
(* The component.                                                          *)
(***************************************************************************)
\* The step in which a conversion resets the flag
ConversionOver == processing /\ ~processing'

OutcomeShown ==
    IF handler.thrown = "none"
    THEN /\ error' = ""
         /\ canvas' = writtenCanvas(source, optionsOf(handler.settings,
                                                      handler.palette))
    ELSE /\ error' = handler.thrown
         /\ error' # ""
         /\ canvas' = handler.entry

\* C27: a conversion of the component that has set processing resets it, whether it succeeds or throws; when it has thrown, the message is in error and the result canvas is as it was when the conversion began.
ProcessingIsReset ==
    /\ processing ~> ~processing
    /\ [][ConversionOver => OutcomeShown]_vars

ProcessingIsResetWitness ==
    /\ ~processing
    /\ handler.step = "idle"
    /\ error = "IndexSizeError"
    /\ canvas.written
    /\ canvas.imageData = DemoImage
    /\ source = sourceImage(17, 1, 0, 1)
    /\ settings.targetWidth = 8

validCurrentPalette(palette) ==
    /\ Len(palette) > 0
    /\ \A i \in 1..Len(palette) :
           /\ palette[i].r \in 0..255
           /\ palette[i].g \in 0..255
           /\ palette[i].b \in 0..255

\* A step of the editor that leaves a text the editor does not accept
RejectedEdit ==
    /\ handler.step = "idle"
    /\ handler'.step = "idle"
    /\ paletteText' # paletteText
    /\ ~editedPalette(paletteText').accepted

\* C28: currentPalette is the empty list it starts as or a non-empty list of colours with r, g and b in 0..255; an edit whose text is not accepted leaves it as it was, and once it is not empty it stays so.
CurrentPaletteValid ==
    /\ [](currentPalette = << >> \/ validCurrentPalette(currentPalette))
    /\ [][RejectedEdit => currentPalette' = currentPalette]_vars
    /\ [][currentPalette # << >> => currentPalette' # << >>]_vars

CurrentPaletteValidWitness ==
    /\ currentPalette = << [r |-> 1, g |-> 2, b |-> 3, a |-> 255] >>
    /\ paletteText = << "[", "]" >>
    /\ handler.step = "idle"
    /\ canvas.written
    /\ events = 2

=============================================================================
